---- MODULE Spec2Model ----
(***************************************************************************)
(* PLATER: the TRAPI question pipeline of the redis driver.                *)
(*                                                                         *)
(*   RedisDriver.answer_TRAPI_question                                     *)
(*       compile  (redis_trapi_cypher_compiler.cypher_query_answer_map)    *)
(*       execute  (RedisDriver.run / run_graph_query)                      *)
(*       map      (RedisDriver.create_TRAPI_kg_response)                   *)
(*                                                                         *)
(* Data representation.                                                    *)
(*   - A Python str is a sequence of tokens; '' is << >>.  The only string *)
(*     surgery of the code, str.replace on the biolink prefix, acts on the *)
(*     prefix token.  Text built by f-strings and join is the              *)
(*     concatenation of the token sequences of its parts.  The backquote,  *)
(*     which a TLA+ string cannot hold, is the token bq.                   *)
(*   - A Python value is a record [t, v]: t its type, v the sequence of    *)
(*     the strings it holds (one for a str, bool or int, the elements for  *)
(*     a list, none for None).                                             *)
(*   - A Python dict is an association list in insertion order: a sequence *)
(*     of entries [k, v] with pairwise different keys.                     *)
(***************************************************************************)
EXTENDS Integers, Sequences, FiniteSets, TLC

VARIABLES
    pc,               \* position inside answer_TRAPI_question
    qgraph,           \* trapi_question, the query graph of the caller
    options,          \* the options of the caller (keyword arguments of the compiler)
    timeout,          \* the caller's timeout
    node_references,  \* cypher_query_fragment_match: {n: NodeReference}
    edge_references,  \* cypher_query_fragment_match: {e: EdgeReference}
    match_strings,    \* cypher_query_fragment_match: the clauses so far
    orphaned_nodes,   \* orphaned nodes not matched yet
    nodes_with_id,    \* nodes whose pattern has a truthy id, in dict order
    nodes_so_far,     \* nodes listed by the accumulating WITH
    loop_index,       \* index of the next item of the running for loop
    cypher,           \* the query text handed to the gateway
    texts,            \* the query texts of the earlier compilations of this question
    requests,         \* execution requests issued to the gateway
    rows0,            \* results_dict as convert_to_dict returned it
    rows,             \* results_dict, as the mapper has mutated it so far
    nodes_all,        \* create_TRAPI_kg_response locals
    edges_all,
    collected_nodes,
    collected_edges,
    answer_bindings,
    response,         \* what the caller receives
    error,            \* the exception the caller receives
    raised,           \* the exception as raised, and the step that raised it
    phases,           \* the steps entered so far, in order
    lookup_pc,        \* position inside BLHelper.get_most_specific_concept
    concept_list,     \* its argument
    tasks,            \* the lookups of line 28: concept, state, outcome
    completed,        \* the lookups that have completed, in the order they did
    most_specific,    \* what get_most_specific_concept returns
    template_pc,      \* position inside transform_schema_to_question_template
    graph_schema,     \* its argument
    source_index,     \* index of the source type of the outer loop
    target_index,     \* index of the target type of the inner loop
    question_graph,   \* the local of line 85
    question_templates \* the templates appended so far

compilerVars == <<node_references, edge_references, match_strings, orphaned_nodes,
                  nodes_with_id, nodes_so_far, cypher>>
mapperVars == <<rows0, rows, nodes_all, edges_all, collected_nodes, collected_edges,
                answer_bindings>>
lookupVars == <<lookup_pc, concept_list, tasks, completed, most_specific>>
templateVars == <<template_pc, graph_schema, source_index, target_index, question_graph,
                  question_templates>>
answerVars == <<pc, qgraph, options, timeout, compilerVars, texts, loop_index, requests,
                mapperVars, response, error, raised, phases>>
vars == <<answerVars, lookupVars, templateVars>>

-----------------------------------------------------------------------------
(* Python values *)

PyStr(s) == [t |-> "str", v |-> <<s>>]
PyList(ss) == [t |-> "list", v |-> ss]
PyBool(b) == [t |-> "bool", v |-> << IF b THEN <<"True">> ELSE <<"False">> >>]
PyInt(tok) == [t |-> "int", v |-> << <<tok>> >>]
PyNone == [t |-> "none", v |-> << >>]

\* bool(value)
Truthy(val) ==
    CASE val.t = "none" -> FALSE
      [] val.t = "bool" -> val.v[1] = <<"True">>
      [] val.t = "int"  -> val.v[1] # <<"0">>
      [] val.t = "str"  -> val.v[1] # << >>
      [] val.t = "list" -> Len(val.v) > 0

\* str.replace(old, new) for a one-token old
Replace(s, old, new) == [i \in DOMAIN s |-> IF s[i] = old THEN new ELSE s[i]]

\* str.lower()
Lower(s) ==
    [i \in DOMAIN s |-> CASE s[i] = "True" -> "true"
                          [] s[i] = "False" -> "false"
                          [] OTHER -> s[i]]

RECURSIVE Join(_, _)
\* sep.join(parts)
Join(parts, sep) ==
    IF parts = << >> THEN << >>
    ELSE IF Len(parts) = 1 THEN parts[1]
    ELSE parts[1] \o sep \o Join(Tail(parts), sep)

(* Python dicts *)

Entry(key, val) == [k |-> key, v |-> val]
Keys(d) == {d[i].k : i \in DOMAIN d}
Has(d, key) == \E i \in DOMAIN d : d[i].k = key
Get(d, key) == d[CHOOSE i \in DOMAIN d : d[i].k = key].v
\* d.get(key, default)
GetOr(d, key, default) == IF Has(d, key) THEN Get(d, key) ELSE default
\* d after d.pop(key, ...)
Without(d, key) == SelectSeq(d, LAMBDA e : e.k # key)
\* d after d[key] = val
Put(d, key, val) ==
    IF Has(d, key)
    THEN [i \in DOMAIN d |-> IF d[i].k = key THEN [k |-> key, v |-> val] ELSE d[i]]
    ELSE Append(d, [k |-> key, v |-> val])
\* list(d.keys())
KeyList(d) == [i \in DOMAIN d |-> d[i].k]

RECURSIVE Update(_, _)
\* d after d.update(other)
Update(d, other) ==
    IF other = << >> THEN d
    ELSE Update(Put(d, other[1].k, other[1].v), Tail(other))

NoException == "none"

\* the backquote character of the query text
bq == "BQ"

-----------------------------------------------------------------------------
(* redis_trapi_cypher_compiler *)

\* cypher_prop_string(value): [exc, text]
cypher_prop_string(value) ==
    CASE value.t = "bool" -> [exc |-> NoException, text |-> Lower(value.v[1])]
      [] value.t = "str"  -> [exc |-> NoException, text |-> <<"'">> \o value.v[1] \o <<"'">>]
      [] OTHER            -> [exc |-> "ValueError", text |-> << >>]

\* NodeLabels without the default of line 25
NodeLabels_NoDefault(node) ==
    LET category == GetOr(node, "category", PyList(<< >>))
    IN  IF category.t = "list" THEN category.v ELSE <<category.v[1]>>

\* labels, lines 25-27
NodeLabels(node) ==
    LET category == GetOr(node, "category", PyStr(<<"biolink.", "NamedThing">>))
    IN  IF category.t = "list" THEN category.v ELSE <<category.v[1]>>

\* curie, line 30
NodeCurie(node) == GetOr(node, "id", PyNone)

\* CurieIsInline with the length test of line 33 loosened to one or more
CurieIsInline_AnyList(curie) ==
    curie.t = "str" \/ (curie.t = "list" /\ Len(curie.v) >= 1)

\* line 33: the curie is folded into the property literal
CurieIsInline(curie) ==
    curie.t = "str" \/ (curie.t = "list" /\ Len(curie.v) = 1)

\* curie_filters, lines 29-38
CurieFilters(name, curie) ==
    IF curie.t = "list" /\ ~CurieIsInline(curie)
    THEN [i \in DOMAIN curie.v |-> name \o <<".id = '">> \o curie.v[i] \o <<"'">>]
    ELSE << >>

\* self.has_curie, lines 31-42
HasCurie(curie) == curie.t # "none"

\* label_filters, lines 43-47
LabelFilters(name, labels) ==
    [i \in DOMAIN labels |->
        <<bq>> \o Replace(labels[i], "biolink:", "biolink.") \o <<bq, " in labels(", bq>>
            \o name \o <<bq, ")">>]

\* self._filters, lines 48-51
NodeFilters(curie_filters, label_filters) ==
    IF Len(curie_filters) > 0
    THEN <<"( ">> \o Join(curie_filters, <<" OR ">>) \o <<")">>
    ELSE << >>

\* props, lines 28-34 and 52-54
NodeProps(node, curie) ==
    LET rest == Without(Without(Without(Without(node, "category"), "id"), "name"), "is_set")
        props == IF curie.t # "none" /\ CurieIsInline(curie)
                 THEN <<[k |-> "id", v |-> PyStr(curie.v[1])]>>
                 ELSE << >>
    IN  Update(props, rest)

\* self.prop_string, line 58: [exc, text]
PropString(props) ==
    LET shown == SelectSeq(props, LAMBDA e : Truthy(e.v))
        item(e) == <<bq, e.k, bq, ": ">> \o cypher_prop_string(e.v).text
    IN  IF \E i \in DOMAIN shown : cypher_prop_string(shown[i].v).exc # NoException
        THEN [exc |-> "ValueError", text |-> << >>]
        ELSE [exc |-> NoException,
              text |-> <<" {">> \o Join([i \in DOMAIN shown |-> item(shown[i])], <<", ">>)
                          \o <<"}">>]

\* NodeReference.__init__(node, node_id): [exc, ref]
NodeReference(node, node_id) ==
    LET name == <<node_id>>
        labels == NodeLabels(node)
        curie == NodeCurie(node)
        props == NodeProps(node, curie)
        ps == PropString(props)
        ref == [name |-> name,
                labels |-> labels,
                prop_string |-> ps.text,
                filters |-> NodeFilters(CurieFilters(name, curie), LabelFilters(name, labels)),
                has_curie |-> HasCurie(curie),
                extras |-> << >>,
                num |-> 0]
    IN  IF curie.t \notin {"none", "str", "list"}
        THEN [exc |-> "TypeError", ref |-> ref]
        ELSE [exc |-> ps.exc, ref |-> ref]

\* NodeStr with every render in the form of the first
NodeStr_AlwaysDeclares(ref) ==
    LET label == IF Len(ref.labels) > 0
                 THEN <<":", bq>> \o Replace(ref.labels[1], "biolink:", "biolink.") \o <<bq>>
                 ELSE << >>
    IN  [ref |-> [ref EXCEPT !.num = @ + 1],
         text |-> ref.name \o label \o ref.prop_string]

\* NodeReference.__str__: [ref, text], the reference after the render and the text
NodeStr(ref) ==
    LET label == IF Len(ref.labels) > 0
                 THEN <<":", bq>> \o Replace(ref.labels[1], "biolink:", "biolink.") \o <<bq>>
                 ELSE << >>
    IN  [ref |-> [ref EXCEPT !.num = @ + 1],
         text |-> IF ref.num + 1 = 1
                  THEN ref.name \o label \o ref.prop_string
                  ELSE ref.name]

\* NodeReference.extras
NodeExtras(ref) == IF ref.num >= 1 THEN ref.extras ELSE << >>

\* the predicate of an edge pattern, or None
EdgePredicate(edge) == GetOr(edge, "predicate", PyNone)

\* label, lines 99-117
EdgeLabel(predicate) == IF predicate.t = "list" THEN PyNone ELSE predicate

\* filters, lines 101-117
EdgeFilters(name, predicate) ==
    IF predicate.t = "list"
    THEN Join([i \in DOMAIN predicate.v |->
                  <<"type(">> \o name \o <<") = \"">>
                      \o Replace(predicate.v[i], "biolink:", "biolink.") \o <<"\" ">>],
              <<" OR ">>)
    ELSE << >>

\* EdgeDirected with the default of lines 123-124 replaced by True
EdgeDirected_Always(edge, predicate) ==
    IF Has(edge, "directed") THEN Truthy(Get(edge, "directed")) ELSE TRUE

\* self.directed, lines 123-124, by its truth value
EdgeDirected(edge, predicate) ==
    IF Has(edge, "directed") THEN Truthy(Get(edge, "directed")) ELSE Truthy(predicate)

\* EdgeReference.__init__(edge, edge_id): [exc, ref]
EdgeReference(edge, edge_id) ==
    LET name == <<edge_id>>
        predicate == EdgePredicate(edge)
        ref == [name |-> name,
                label |-> EdgeLabel(predicate),
                num |-> 0,
                filters |-> EdgeFilters(name, predicate),
                directed |-> EdgeDirected(edge, predicate),
                reversed |-> FALSE]
    IN  IF predicate.t \notin {"none", "str", "list"}
        THEN [exc |-> "UnboundLocalError", ref |-> ref]
        ELSE [exc |-> NoException, ref |-> ref]

\* EdgeStr with the arrow of an edge that is not reversed, whatever the edge
EdgeStr_ArrowAhead(ref) ==
    LET label == IF Truthy(ref.label)
                 THEN <<":", bq>> \o Replace(ref.label.v[1], "biolink:", "biolink.") \o <<bq>>
                 ELSE << >>
        innards == IF ref.num + 1 = 1 THEN ref.name \o label ELSE ref.name
    IN  [ref |-> [ref EXCEPT !.num = @ + 1],
         text |-> IF ref.directed
                  THEN <<"-[">> \o innards \o <<"]->">>
                  ELSE <<"-[">> \o innards \o <<"]-">>]

\* EdgeReference.__str__: [ref, text]
EdgeStr(ref) ==
    LET label == IF Truthy(ref.label)
                 THEN <<":", bq>> \o Replace(ref.label.v[1], "biolink:", "biolink.") \o <<bq>>
                 ELSE << >>
        innards == IF ref.num + 1 = 1 THEN ref.name \o label ELSE ref.name
    IN  [ref |-> [ref EXCEPT !.num = @ + 1],
         text |-> IF ref.directed
                  THEN IF ~ref.reversed
                       THEN <<"-[">> \o innards \o <<"]->">>
                       ELSE <<"<-[">> \o innards \o <<"]-">>
                  ELSE <<"-[">> \o innards \o <<"]-">>]

\* the key a str value names
KeyOf(val) == val.v[1][1]

\* the first exception of a sequence of outcomes, in order
FirstException(excs) ==
    IF \E i \in DOMAIN excs : excs[i] # NoException
    THEN excs[CHOOSE i \in DOMAIN excs :
                 /\ excs[i] # NoException
                 /\ \A j \in 1..(i - 1) : excs[j] = NoException]
    ELSE NoException

\* all_referenced_nodes, line 165
ReferencedNodes(edges) ==
    UNION { {KeyOf(Get(edges[i].v, "subject")), KeyOf(Get(edges[i].v, "object"))} :
              i \in DOMAIN edges }

\* orphaned_nodes, lines 164-166
OrphanedNodes(nodes, edges) == Keys(nodes) \ ReferencedNodes(edges)

\* nodes_with_id, line 167
NodesWithId(nodes) ==
    SelectSeq(KeyList(nodes), LAMBDA n : Truthy(GetOr(Get(nodes, n), "id", PyNone)))

\* str(node_references[n]): the references after the render, and the text
RenderNode(nrefs, n) ==
    LET r == NodeStr(Get(nrefs, n))
    IN  [refs |-> Put(nrefs, n, r.ref), text |-> r.text]

\* MATCH and WHERE of one node, lines 169-172 and 175-177
NodeMatch(nrefs, n) ==
    LET r == RenderNode(nrefs, n)
        ref == Get(r.refs, n)
        clause == <<"MATCH (">> \o r.text \o <<")">>
    IN  [refs |-> r.refs,
         clauses |-> IF ref.filters # << >>
                     THEN <<clause, <<"WHERE ">> \o ref.filters>>
                     ELSE <<clause>>]

\* the accumulating projection, line 179
WithClause(so_far) == <<"WITH ">> \o Join([i \in DOMAIN so_far |-> <<so_far[i]>>], <<", ">>)

\* line 186: the edge is matched from its object
Reversed(source_node, target_node) == target_node.has_curie /\ ~source_node.has_curie

\* EdgeWhereFilters without the test `if c` of line 192
EdgeWhereFilters_KeepEmpty(source_node, target_node, eref) ==
    LET cs == <<source_node.filters, target_node.filters, eref.filters>>
    IN  [i \in DOMAIN cs |-> <<"(">> \o cs[i] \o <<")">>]

\* the filters of an edge before the connectivity bound, line 192
EdgeWhereFilters(source_node, target_node, eref) ==
    LET cs == SelectSeq(<<source_node.filters, target_node.filters, eref.filters>>,
                        LAMBDA c : c # << >>)
    IN  [i \in DOMAIN cs |-> <<"(">> \o cs[i] \o <<")">>]

\* one iteration of the edge loop, lines 183-196: [nrefs, eref, clauses]
EdgeMatch(nrefs, eref0, subject, object, max_conn) ==
    LET rev == Reversed(Get(nrefs, subject), Get(nrefs, object))
        eref1 == IF rev THEN [eref0 EXCEPT !.reversed = TRUE] ELSE eref0
        a == RenderNode(nrefs, IF rev THEN object ELSE subject)
        er == EdgeStr(eref1)
        b == RenderNode(a.refs, IF rev THEN subject ELSE object)
        pattern == <<"MATCH (">> \o a.text \o <<")">> \o er.text \o <<"(">> \o b.text \o <<")">>
                       \o NodeExtras(Get(b.refs, subject)) \o NodeExtras(Get(b.refs, object))
        filters0 == EdgeWhereFilters(Get(b.refs, subject), Get(b.refs, object), er.ref)
        c1 == RenderNode(b.refs, object)
        c2 == RenderNode(c1.refs, object)
        bounded == max_conn > -1
        filters == IF bounded
                   THEN Append(filters0,
                               <<"((indegree(">> \o c1.text \o <<") + outdegree(">> \o c2.text
                                   \o <<") ) < ", ToString(max_conn), ")">>)
                   ELSE filters0
    IN  [nrefs |-> IF bounded THEN c2.refs ELSE b.refs,
         eref |-> er.ref,
         clauses |-> IF filters # << >>
                     THEN <<pattern, <<"\nWHERE ">> \o Join(filters, <<"\nAND ">>)>>
                     ELSE <<pattern>>]

\* the iteration orders of a set
Orders(S) ==
    { p \in [1..Cardinality(S) -> S] : \A i, j \in DOMAIN p : i # j => p[i] # p[j] }

\* SetNodes by the presence of the key is_set, whatever its value
SetNodes_Present(nodes) ==
    { nodes[i].k : i \in { j \in DOMAIN nodes : Has(nodes[j].v, "is_set") } }

\* node_names_sets, line 217
SetNodes(nodes) ==
    { nodes[i].k : i \in { j \in DOMAIN nodes : Truthy(GetOr(nodes[j].v, "is_set", PyNone)) } }

\* cypher_query_answer_map after the match fragment, lines 207-245; the arguments
\* after kwargs are the orders in which the sets of names are iterated
QueryString(match_string, kwargs, node_names, sets, others, edge_names) ==
    LET isset(n) == \E i \in DOMAIN sets : sets[i] = n
        node_id_accessor ==
            [i \in DOMAIN node_names |->
                IF isset(node_names[i])
                THEN <<"collect(", node_names[i], ") AS ", node_names[i]>>
                ELSE <<node_names[i], " AS ", node_names[i]>>]
        edge_id_accessor ==
            [i \in DOMAIN edge_names |-> <<"collect(", edge_names[i], ") AS ", edge_names[i]>>]
        accessors == node_id_accessor \o edge_id_accessor
        returns ==
            [i \in DOMAIN node_names |-> <<node_names[i]>>]
            \o [i \in DOMAIN edge_names |-> <<edge_names[i]>>]
            \o [i \in DOMAIN sets |->
                   <<"[node in ", sets[i], " | labels(node)] AS type__", sets[i]>>]
            \o [i \in DOMAIN others |-> <<"labels(", others[i], ") AS type__", others[i]>>]
            \o [i \in DOMAIN edge_names |->
                   <<"[edge in ", edge_names[i], " | type(edge)] AS type__", edge_names[i]>>]
            \o [i \in DOMAIN edge_names |->
                   <<"[edge in ", edge_names[i],
                     " | [startNode(edge).id, endNode(edge).id]] AS id_pairs__", edge_names[i]>>]
        clauses ==
            (IF match_string # << >> THEN <<match_string>> ELSE << >>)
            \o (IF accessors # << >>
                THEN << <<"WITH ">> \o Join(accessors, <<", ">>) >>
                ELSE << >>)
            \o << <<"RETURN ">> \o Join(returns, <<",">>) >>
    IN  Join(clauses, <<"\n">>)
            \o (IF Has(kwargs, "skip") THEN <<" SKIP ", ToString(Get(kwargs, "skip"))>> ELSE << >>)
            \o (IF Has(kwargs, "limit") THEN <<" LIMIT ", ToString(Get(kwargs, "limit"))>> ELSE << >>)

-----------------------------------------------------------------------------
(* redis_driver *)

\* A cell of a row is [islist, val]: isinstance(cell, list), and the record (a dict)
\* or the list of records, labels or id pairs it holds.
Cell(islist, val) == [islist |-> islist, val |-> val]

Min(a, b) == IF a < b THEN a ELSE b

\* RedisDriver.convert_to_dict over the result of format_cypher_result, lines 94-107
convert_to_dict(result) ==
    [r \in DOMAIN result.data |->
        [i \in 1..Min(Len(result.columns), Len(result.data[r])) |->
            Entry(result.columns[i], result.data[r][i])]]

\* lines 138-139 and 164-165: a cell as a list, wrapped when the cell of qg_id is no list
AsList(row, column, qg_id) ==
    IF Get(row, qg_id).islist THEN Get(row, column).val ELSE <<Get(row, column).val>>

\* the row after record i of the cell of qg_id became rec
WithRecord(row, qg_id, i, rec) ==
    LET cell == Get(row, qg_id)
    IN  Put(row, qg_id, IF cell.islist
                        THEN Cell(TRUE, [cell.val EXCEPT ![i] = rec])
                        ELSE Cell(FALSE, rec))

\* the attribute list of a knowledge graph entry, lines 153-160 and 183-190
Attributes(record, reserved) ==
    LET rest == SelectSeq(record, LAMBDA e : e.k \notin reserved)
    IN  [i \in DOMAIN rest |-> [type |-> "NA", value |-> rest[i].v, name |-> rest[i].k]]

\* new_node, lines 148-160; node is the record after pop('id')
NewNode(node) ==
    [name |-> GetOr(node, "name", PyStr(<< >>)),
     attributes |-> Attributes(node, {"name", "attributes"})]

\* new_edge, lines 175-190; edge is the record after pop('id')
NewEdge(edge, edge_type, id_pair) ==
    [subject |-> id_pair[1],
     object |-> id_pair[2],
     predicate |-> edge_type,
     attributes |-> Attributes(edge, {"subject", "object", "predicate", "attributes"})]

\* RegisterNode with the test of line 147 inverted
RegisterNode_Inverted(ms, node_id, node) ==
    IF node_id \in ms.collected_nodes
    THEN [ms EXCEPT !.collected_nodes = @ \cup {node_id},
                    !.nodes_all = Put(@, node_id, NewNode(node))]
    ELSE ms

\* RegisterNode without the test of line 147
RegisterNode_Overwrite(ms, node_id, node) ==
    [ms EXCEPT !.collected_nodes = @ \cup {node_id},
               !.nodes_all = Put(@, node_id, NewNode(node))]

\* lines 147-161: the registries after a node record with this id
RegisterNode(ms, node_id, node) ==
    IF node_id \notin ms.collected_nodes
    THEN [ms EXCEPT !.collected_nodes = @ \cup {node_id},
                    !.nodes_all = Put(@, node_id, NewNode(node))]
    ELSE ms

\* lines 173-193: the registries after an edge record with this id
RegisterEdge(ms, edge_id, edge, edge_type, id_pair) ==
    IF edge_id \notin ms.collected_edges
    THEN [ms EXCEPT !.collected_edges = @ \cup {edge_id},
                    !.edges_all = Put(@, edge_id, NewEdge(edge, edge_type, id_pair))]
    ELSE ms

\* PopId as dict.pop('id', None)
PopId_Default(record) ==
    [exc |-> NoException, id |-> GetOr(record, "id", PyNone), rest |-> Without(record, "id")]

\* dict.pop('id') of a record: [exc, id, rest]
PopId(record) ==
    IF Has(record, "id")
    THEN [exc |-> NoException, id |-> Get(record, "id"), rest |-> Without(record, "id")]
    ELSE [exc |-> "KeyError", id |-> PyNone, rest |-> record]

\* MapNode with line 144 moved under the test of line 147
MapNode_BindOnce(ms, qg_id, i) ==
    LET node == AsList(ms.row, qg_id, qg_id)[i]
        popped == PopId(node)
        row1 == WithRecord(ms.row, qg_id, i, popped.rest)
    IN  IF popped.exc # NoException THEN [ms EXCEPT !.exc = popped.exc]
        ELSE IF ~Truthy(popped.id) THEN [ms EXCEPT !.exc = "AssertionError", !.row = row1]
        ELSE RegisterNode([ms EXCEPT !.row = row1,
                                     !.binding = IF popped.id \in ms.collected_nodes
                                                 THEN @
                                                 ELSE Append(@, [id |-> popped.id])],
                          popped.id, popped.rest)

\* the body of the loop of line 141 for record i of the cell of qg_id
MapNode(ms, qg_id, i) ==
    LET node == AsList(ms.row, qg_id, qg_id)[i]
        popped == PopId(node)
        row1 == WithRecord(ms.row, qg_id, i, popped.rest)
    IN  IF popped.exc # NoException THEN [ms EXCEPT !.exc = popped.exc]
        ELSE IF ~Truthy(popped.id) THEN [ms EXCEPT !.exc = "AssertionError", !.row = row1]
        ELSE RegisterNode([ms EXCEPT !.row = row1,
                                     !.binding = Append(@, [id |-> popped.id])],
                          popped.id, popped.rest)

\* MapEdge with the id pair of the first position for every record of the cell
MapEdge_FirstPair(ms, qg_id, i) ==
    LET edge == AsList(ms.row, qg_id, qg_id)[i]
        edge_type == Replace(AsList(ms.row, "type__" \o qg_id, qg_id)[i], "biolink.", "biolink:")
        id_pair == Get(ms.row, "id_pairs__" \o qg_id).val[1]
        popped == PopId(edge)
        row1 == WithRecord(ms.row, qg_id, i, popped.rest)
    IN  IF popped.exc # NoException THEN [ms EXCEPT !.exc = popped.exc]
        ELSE RegisterEdge([ms EXCEPT !.row = row1,
                                     !.binding = Append(@, [id |-> popped.id])],
                          popped.id, popped.rest, edge_type, id_pair)

\* the body of the loop of line 170 for record i of the cell of qg_id
MapEdge(ms, qg_id, i) ==
    LET edge == AsList(ms.row, qg_id, qg_id)[i]
        edge_type == Replace(AsList(ms.row, "type__" \o qg_id, qg_id)[i], "biolink.", "biolink:")
        id_pair == Get(ms.row, "id_pairs__" \o qg_id).val[i]
        popped == PopId(edge)
        row1 == WithRecord(ms.row, qg_id, i, popped.rest)
    IN  IF popped.exc # NoException THEN [ms EXCEPT !.exc = popped.exc]
        ELSE RegisterEdge([ms EXCEPT !.row = row1,
                                     !.binding = Append(@, [id |-> popped.id])],
                          popped.id, popped.rest, edge_type, id_pair)

RECURSIVE MapNodeRecords(_, _, _, _)
\* the loop of line 141 from record i to record n, stopped by an exception
MapNodeRecords(ms, qg_id, i, n) ==
    IF i > n \/ ms.exc # NoException THEN ms
    ELSE MapNodeRecords(MapNode(ms, qg_id, i), qg_id, i + 1, n)

RECURSIVE MapEdgeRecords(_, _, _, _)
\* the loop of line 170 from record i to record n, stopped by an exception
MapEdgeRecords(ms, qg_id, i, n) ==
    IF i > n \/ ms.exc # NoException THEN ms
    ELSE MapEdgeRecords(MapEdge(ms, qg_id, i), qg_id, i + 1, n)

\* MapNodeColumn that leaves out the binding list of a cell without records
MapNodeColumn_SkipsEmpty(ms, qg_id) ==
    IF ~Has(ms.row, qg_id) \/ ~Has(ms.row, "type__" \o qg_id)
    THEN [ms EXCEPT !.exc = "KeyError"]
    ELSE LET n == Min(Len(AsList(ms.row, qg_id, qg_id)),
                      Len(AsList(ms.row, "type__" \o qg_id, qg_id)))
             done == MapNodeRecords([ms EXCEPT !.binding = << >>], qg_id, 1, n)
         IN  IF done.exc # NoException \/ done.binding = << >> THEN done
             ELSE [done EXCEPT !.node_bindings = Put(@, qg_id, done.binding)]

\* lines 137-162: one node query-graph id of a row
MapNodeColumn(ms, qg_id) ==
    IF ~Has(ms.row, qg_id) \/ ~Has(ms.row, "type__" \o qg_id)
    THEN [ms EXCEPT !.exc = "KeyError"]
    ELSE LET n == Min(Len(AsList(ms.row, qg_id, qg_id)),
                      Len(AsList(ms.row, "type__" \o qg_id, qg_id)))
             done == MapNodeRecords([ms EXCEPT !.binding = << >>], qg_id, 1, n)
         IN  IF done.exc # NoException THEN done
             ELSE [done EXCEPT !.node_bindings = Put(@, qg_id, done.binding)]

\* lines 164-195: one edge query-graph id of a row
MapEdgeColumn(ms, qg_id) ==
    IF \E c \in {qg_id, "type__" \o qg_id, "id_pairs__" \o qg_id} : ~Has(ms.row, c)
    THEN [ms EXCEPT !.exc = "KeyError"]
    ELSE LET n == Min(Len(AsList(ms.row, qg_id, qg_id)),
                      Min(Len(AsList(ms.row, "type__" \o qg_id, qg_id)),
                          Len(Get(ms.row, "id_pairs__" \o qg_id).val)))
             done == MapEdgeRecords([ms EXCEPT !.binding = << >>], qg_id, 1, n)
         IN  IF done.exc # NoException THEN done
             ELSE [done EXCEPT !.edge_bindings = Put(@, qg_id, done.binding)]

RECURSIVE MapNodeColumns(_, _)
MapNodeColumns(ms, qg_ids) ==
    IF qg_ids = << >> \/ ms.exc # NoException THEN ms
    ELSE MapNodeColumns(MapNodeColumn(ms, qg_ids[1]), Tail(qg_ids))

RECURSIVE MapEdgeColumns(_, _)
MapEdgeColumns(ms, qg_ids) ==
    IF qg_ids = << >> \/ ms.exc # NoException THEN ms
    ELSE MapEdgeColumns(MapEdgeColumn(ms, qg_ids[1]), Tail(qg_ids))

\* the body of the loop of line 130 for one row: the registries, the row as the
\* body left it, the bindings of the row and the exception that ended the body
MapOneRow(registries, row, node_qg_ids, edge_qg_ids) ==
    LET ms0 == [nodes_all |-> registries.nodes_all,
                edges_all |-> registries.edges_all,
                collected_nodes |-> registries.collected_nodes,
                collected_edges |-> registries.collected_edges,
                row |-> row,
                binding |-> << >>,
                node_bindings |-> << >>,
                edge_bindings |-> << >>,
                exc |-> NoException]
    IN  MapEdgeColumns(MapNodeColumns(ms0, node_qg_ids), edge_qg_ids)

-----------------------------------------------------------------------------
(* The caller's inputs *)

\* longest identifier, category or predicate list of a pattern
MaxList == 2

CurieAt(i) == <<"X:", ToString(i)>>
CategoryAt(i) == <<"biolink:", "Category", ToString(i)>>
PredicateAt(i) == <<"biolink:", "predicate", ToString(i)>>

\* the lists of the first n strings of items, n = 0 .. MaxList
ListsOf(items) == {PyList(SubSeq(items, 1, n)) : n \in 0..MaxList}
Curies == [i \in 1..MaxList |-> CurieAt(i)]
Categories == [i \in 1..MaxList |-> CategoryAt(i)]
Predicates == [i \in 1..MaxList |-> PredicateAt(i)]

\* a key that a pattern may leave out
NoValue == [present |-> FALSE, is |-> PyNone]
Value(x) == [present |-> TRUE, is |-> x]
Absent == {NoValue}
Present(S) == {Value(x) : x \in S}
\* the dict of that key alone, empty when the key is left out
Optional(key, val) == IF val.present THEN <<Entry(key, val.is)>> ELSE << >>

IdChoices == Absent \cup Present({PyStr(CurieAt(1)), PyInt("5")} \cup ListsOf(Curies))
CategoryChoices == Absent \cup Present({PyStr(CategoryAt(1))} \cup ListsOf(Categories))
PredicateChoices ==
    Absent \cup Present({PyNone, PyStr(PredicateAt(1)), PyStr(<<"related_to">>), PyInt("5")}
                        \cup ListsOf(Predicates))
DirectedChoices == Absent \cup Present({PyBool(TRUE), PyBool(FALSE)})
ExtraChoices ==
    { << >>,
      <<Entry("name", PyStr(<<"aspirin">>))>>,
      <<Entry("is_set", PyBool(TRUE))>>,
      <<Entry("is_set", PyBool(FALSE)), Entry("drug", PyBool(TRUE))>>,
      <<Entry("drug", PyBool(FALSE))>>,
      <<Entry("source", PyStr(<<"chembl">>)), Entry("drug", PyBool(TRUE))>>,
      <<Entry("source", PyStr(<< >>))>>,
      <<Entry("weight", PyInt("5"))>>,
      <<Entry("weight", PyInt("0"))>> }

NodePattern(id, category, extra) ==
    Optional("category", category) \o Optional("id", id) \o extra
EdgePattern(subject, object, predicate, directed) ==
    <<Entry("subject", PyStr(<<subject>>)), Entry("object", PyStr(<<object>>))>>
        \o Optional("predicate", predicate) \o Optional("directed", directed)

QGraph(nodes, edges) == [nodes |-> nodes, edges |-> edges]

\* one node and no edge: every node pattern
OneNodeGraphs ==
    { QGraph(<<Entry("n0", NodePattern(id, category, extra))>>, << >>) :
        id \in IdChoices, category \in CategoryChoices, extra \in ExtraChoices }

\* n0 -e0-> n1: every pair of identifier choices and every edge pattern
OneEdgeGraphs ==
    { QGraph(<<Entry("n0", NodePattern(ids[1], NoValue, << >>)),
               Entry("n1", NodePattern(ids[2], Value(PyStr(CategoryAt(1))), << >>))>>,
             <<Entry("e0", EdgePattern("n0", "n1", predicate, directed))>>) :
        ids \in IdChoices \X IdChoices,
        predicate \in PredicateChoices, directed \in DirectedChoices }

\* two edges over three nodes, one orphaned node, and edges naming a missing node
ShapeGraphs ==
    LET bound == NodePattern(Value(PyStr(CurieAt(1))), Value(PyStr(CategoryAt(1))), << >>)
        many == NodePattern(Value(PyList(<<CurieAt(1), CurieAt(2)>>)), NoValue, << >>)
        free == NodePattern(NoValue, Value(PyList(<<CategoryAt(2)>>)),
                            <<Entry("is_set", PyBool(TRUE))>>)
        typed(s, o) == EdgePattern(s, o, Value(PyStr(PredicateAt(1))), NoValue)
        multi(s, o) == EdgePattern(s, o, Value(PyList(<<PredicateAt(1), PredicateAt(2)>>)),
                                   NoValue)
    IN  { QGraph(<<Entry("n0", a), Entry("n1", b), Entry("n2", c)>>, es) :
            a \in {bound, free}, b \in {many, free}, c \in {bound, free},
            es \in { <<Entry("e0", typed("n0", "n1"))>>,
                     <<Entry("e0", typed("n0", "n1")), Entry("e1", multi("n1", "n2"))>>,
                     <<Entry("e0", typed("n0", "n1")), Entry("e1", multi("n1", "n0"))>>,
                     <<Entry("e0", multi("n1", "n1"))>>,
                     <<Entry("e0", typed("n0", "n1")), Entry("e1", typed("n1", "n9"))>>,
                     <<Entry("e0", typed("n9", "n1"))>> } }

CompilerGraphs == OneNodeGraphs \cup OneEdgeGraphs \cup ShapeGraphs

\* options of the caller: max_connectivity, skip, limit
OptionChoices ==
    { << >>,
      <<Entry("max_connectivity", 3)>>,
      <<Entry("max_connectivity", 0), Entry("skip", 10), Entry("limit", 5)>> }

\* the calls of answer_TRAPI_question that run to the gateway, and those that the
\* compiler refuses
AnswerGraphs ==
    LET bound == NodePattern(Value(PyStr(CurieAt(1))), Value(PyStr(CategoryAt(1))), << >>)
        many == NodePattern(Value(PyList(<<CurieAt(1), CurieAt(2)>>)), NoValue, << >>)
        free == NodePattern(NoValue, Value(PyList(<<CategoryAt(2)>>)),
                            <<Entry("is_set", PyBool(TRUE))>>)
        typed(so, ob) == EdgePattern(so, ob, Value(PyStr(PredicateAt(1))), NoValue)
    IN  { QGraph(<<Entry("n0", bound), Entry("n1", free)>>, <<Entry("e0", typed("n0", "n1"))>>),
          QGraph(<<Entry("n0", many)>>, << >>),
          QGraph(<<Entry("n0", NodePattern(NoValue, NoValue, <<Entry("weight", PyInt("5"))>>))>>,
                 << >>),
          QGraph(<<Entry("n0", NodePattern(Value(PyInt("5")), NoValue, << >>))>>, << >>),
          QGraph(<<Entry("n0", bound), Entry("n1", free)>>,
                 <<Entry("e0", EdgePattern("n0", "n1", Value(PyInt("5")), NoValue))>>),
          QGraph(<<Entry("n0", bound), Entry("n1", free)>>, <<Entry("e0", typed("n0", "n9"))>>) }

TimeoutChoices == {PyNone, PyInt("30")}

Call(g, kwargs, query_timeout) == [qgraph |-> g, options |-> kwargs, timeout |-> query_timeout]

-----------------------------------------------------------------------------
(* What the gateway can answer *)

\* most records (nodes and edges) in one result set
MaxRecords == 3

StoreA == PyStr(<<"A:1">>)
StoreB == PyStr(<<"B:2">>)

\* node records: two with the same id and different fields, one with another id
\* and no name; then one without id and one with an empty id
WellFormedNodeRecords ==
    { <<Entry("id", StoreA), Entry("name", PyStr(<<"alpha">>))>>,
      <<Entry("id", StoreA), Entry("name", PyStr(<<"beta">>)),
        Entry("description", PyStr(<<"text">>))>>,
      <<Entry("synonym", PyStr(<<"b">>)), Entry("id", StoreB)>> }
NodeRecords ==
    WellFormedNodeRecords \cup
    { <<Entry("name", PyStr(<<"alpha">>))>>,
      <<Entry("id", PyStr(<< >>)), Entry("name", PyStr(<<"alpha">>))>> }

\* labels(node) of a matched node
NodeTypeLabels == << <<"biolink.", "Category", "1">>, <<"biolink.", "NamedThing">> >>

\* matched edges: the record, type(edge) and [startNode(edge).id, endNode(edge).id]
EdgeInstances ==
    { [rec |-> <<Entry("id", PyStr(<<"E:1">>))>>,
       type |-> <<"biolink.", "treats">>, pair |-> <<StoreA, StoreB>>],
      [rec |-> <<Entry("id", PyStr(<<"E:1">>)), Entry("weight", PyStr(<<"high">>))>>,
       type |-> <<"biolink.", "causes">>, pair |-> <<StoreB, StoreA>>],
      [rec |-> <<Entry("subject", PyStr(<<"s">>)), Entry("id", PyStr(<<"E:2">>))>>,
       type |-> <<"related_to">>, pair |-> <<StoreA, StoreA>>],
      [rec |-> <<Entry("weight", PyStr(<<"high">>))>>,
       type |-> <<"biolink.", "treats">>, pair |-> <<StoreB, StoreB>>] }

\* the columns the compiled query returns for a query graph: for every node and edge
\* the kind of its cell (cypher_query_answer_map, lines 221-233)
ColumnsOf(g) ==
    [i \in DOMAIN g.nodes |->
        [key |-> g.nodes[i].k,
         kind |-> IF g.nodes[i].k \in SetNodes(g.nodes) THEN "set" ELSE "scalar"]]
    \o [i \in DOMAIN g.edges |-> [key |-> g.edges[i].k, kind |-> "edge"]]

\* the node records of the rows of a query: every node record when the query has
\* node columns only, the well-formed ones beside edge columns (there the records
\* without identity are edge records)
NodeRecordsOf(cols) ==
    IF \E i \in DOMAIN cols : cols[i].kind = "edge" THEN WellFormedNodeRecords ELSE NodeRecords

\* what one cell can hold within a budget of m records
CellFills(kind, m, nodeRecords) ==
    CASE kind = "scalar" -> IF m >= 1 THEN {<<r>> : r \in nodeRecords} ELSE {}
      [] kind = "set"    -> UNION {[1..n -> nodeRecords] : n \in 0..m}
      [] kind = "edge"   -> UNION {[1..n -> EdgeInstances] : n \in 0..m}

RECURSIVE RowFills(_, _, _)
\* the rows of at most m records, a row being the fill of every column
RowFills(cols, m, nodeRecords) ==
    IF cols = << >> THEN {<< >>}
    ELSE UNION { { <<f>> \o rest : rest \in RowFills(Tail(cols), m - Len(f), nodeRecords) } :
                   f \in CellFills(cols[1].kind, m, nodeRecords) }

RECURSIVE Sum(_)
Sum(ns) == IF ns = << >> THEN 0 ELSE ns[1] + Sum(Tail(ns))
RowSize(fill) == Sum([i \in DOMAIN fill |-> Len(fill[i])])

RECURSIVE ResultFills(_, _)
\* the result sets of at most m records: no row is empty
ResultFills(cols, m) ==
    {<< >>} \cup
    UNION { LET rests == ResultFills(cols, m - n)
                firsts == {r \in RowFills(cols, n, NodeRecordsOf(cols)) : RowSize(r) = n}
            IN  { <<row>> \o rest : row \in firsts, rest \in rests } :
            n \in 1..m }

\* the header and one row of the result of run_graph_query, lines 58-76
HeaderOf(cols) ==
    [i \in DOMAIN cols |-> cols[i].key]
    \o [i \in DOMAIN cols |-> "type__" \o cols[i].key]
    \o LET es == SelectSeq(cols, LAMBDA c : c.kind = "edge")
       IN  [i \in DOMAIN es |-> "id_pairs__" \o es[i].key]
DataRowOf(cols, fill) ==
    [i \in DOMAIN cols |->
        CASE cols[i].kind = "scalar" -> Cell(FALSE, fill[i][1])
          [] cols[i].kind = "set"    -> Cell(TRUE, fill[i])
          [] cols[i].kind = "edge"   -> Cell(TRUE, [j \in DOMAIN fill[i] |-> fill[i][j].rec])]
    \o [i \in DOMAIN cols |->
        CASE cols[i].kind = "scalar" -> Cell(TRUE, NodeTypeLabels)
          [] cols[i].kind = "set"    -> Cell(TRUE, [j \in DOMAIN fill[i] |-> NodeTypeLabels])
          [] cols[i].kind = "edge"   -> Cell(TRUE, [j \in DOMAIN fill[i] |-> fill[i][j].type])]
    \o LET es == SelectSeq([i \in DOMAIN cols |-> [kind |-> cols[i].kind, fill |-> fill[i]]],
                           LAMBDA c : c.kind = "edge")
       IN  [i \in DOMAIN es |-> Cell(TRUE, [j \in DOMAIN es[i].fill |-> es[i].fill[j].pair])]

\* RedisDriver.run_graph_query and format_cypher_result for a result set
GraphQueryResult(cols, fills) ==
    [columns |-> HeaderOf(cols), data |-> [r \in DOMAIN fills |-> DataRowOf(cols, fills[r])]]

GatewayErrors == {"ResponseError", "ConnectionError"}

-----------------------------------------------------------------------------
(* answer_TRAPI_question, step by step *)

NoError == [type |-> NoException, cause |-> NoException]
NoRaise == [exc |-> NoException, phase |-> "none"]
NoResponse ==
    [returned |-> FALSE,
     knowledge_graph |-> [nodes |-> << >>, edges |-> << >>],
     results |-> << >>,
     query_graph |-> QGraph(<< >>, << >>)]

\* Propagate with a try/except that wraps the exception
Propagate_Wrapped(exc) == [type |-> "QuestionAnsweringError", cause |-> exc]

\* what the caller of _GraphInterface.answer_trapi_question sees of an exception raised
\* inside RedisDriver.answer_TRAPI_question: neither function catches anything
Propagate(exc) == [type |-> exc, cause |-> NoException]

\* GatewayRequest without the query_timeout keyword of line 116
GatewayRequest_Untimed(query, query_timeout) ==
    [query |-> query, read_only |-> TRUE, timeout |-> PyNone]

\* the request that RedisDriver.run hands to the gateway, lines 55-57 and 116
GatewayRequest(query, query_timeout) ==
    [query |-> query, read_only |-> TRUE, timeout |-> query_timeout]

\* no call of get_most_specific_concept
NoLookups ==
    /\ lookup_pc = "idle"
    /\ concept_list = << >>
    /\ tasks = << >>
    /\ completed = << >>
    /\ most_specific = << >>

\* the local question_graph before its first assignment
Unbound == [nodes |-> << >>, edges |-> << >>, bound |-> FALSE]

\* no call of transform_schema_to_question_template
NoTemplates ==
    /\ template_pc = "idle"
    /\ graph_schema = << >>
    /\ source_index = 1
    /\ target_index = 1
    /\ question_graph = Unbound
    /\ question_templates = << >>

\* the state before the call
InitCall(calls) ==
    /\ NoLookups
    /\ NoTemplates
    /\ pc = "start"
    /\ \E call \in calls :
         /\ qgraph = call.qgraph
         /\ options = call.options
         /\ timeout = call.timeout
    /\ node_references = << >>
    /\ edge_references = << >>
    /\ match_strings = << >>
    /\ orphaned_nodes = {}
    /\ nodes_with_id = << >>
    /\ nodes_so_far = << >>
    /\ loop_index = 1
    /\ cypher = << >>
    /\ texts = << >>
    /\ requests = << >>
    /\ rows0 = << >>
    /\ rows = << >>
    /\ nodes_all = << >>
    /\ edges_all = << >>
    /\ collected_nodes = {}
    /\ collected_edges = {}
    /\ answer_bindings = << >>
    /\ response = NoResponse
    /\ error = NoError
    /\ raised = NoRaise
    /\ phases = << >>

\* an exception leaves the call
Raises(exc, phase) ==
    /\ pc' = "raised"
    /\ raised' = [exc |-> exc, phase |-> phase]
    /\ error' = Propagate(exc)

\* the loop of cypher_query_fragment_match that runs next
FirstLoop(orphans, with_id, edges) ==
    IF orphans # {} THEN "orphans"
    ELSE IF with_id # << >> THEN "with_id"
    ELSE IF edges # << >> THEN "edges"
    ELSE "project"

\* transplile_TRAPI_cypher up to line 167 of the compiler: the references, the
\* orphaned nodes and the nodes with identifiers
CreateReferences ==
    /\ pc = "start"
    /\ phases' = Append(phases, "compile")
    /\ LET nodes == qgraph.nodes
           edges == qgraph.edges
           nrefs == [i \in DOMAIN nodes |-> NodeReference(nodes[i].v, nodes[i].k)]
           erefs == [i \in DOMAIN edges |-> EdgeReference(edges[i].v, edges[i].k)]
           exc == FirstException([i \in DOMAIN nrefs |-> nrefs[i].exc]
                                 \o [i \in DOMAIN erefs |-> erefs[i].exc])
       IN  IF exc # NoException
           THEN /\ Raises(exc, "compile")
                /\ UNCHANGED <<node_references, edge_references, orphaned_nodes, nodes_with_id>>
           ELSE /\ node_references' = [i \in DOMAIN nodes |-> Entry(nodes[i].k, nrefs[i].ref)]
                /\ edge_references' = [i \in DOMAIN edges |-> Entry(edges[i].k, erefs[i].ref)]
                /\ orphaned_nodes' = OrphanedNodes(nodes, edges)
                /\ nodes_with_id' = NodesWithId(nodes)
                /\ pc' = FirstLoop(OrphanedNodes(nodes, edges), NodesWithId(nodes), edges)
                /\ UNCHANGED <<raised, error>>
    /\ UNCHANGED <<lookupVars, templateVars, qgraph, options, timeout, texts, match_strings, nodes_so_far, loop_index, cypher,
                   requests, mapperVars, response>>

\* one iteration of the loop over the orphaned nodes, lines 168-172
MatchOrphan ==
    /\ pc = "orphans"
    /\ \E n \in orphaned_nodes :
         LET m == NodeMatch(node_references, n)
         IN  /\ node_references' = m.refs
             /\ match_strings' = match_strings \o m.clauses
             /\ orphaned_nodes' = orphaned_nodes \ {n}
             /\ pc' = FirstLoop(orphaned_nodes \ {n}, nodes_with_id, qgraph.edges)
    /\ UNCHANGED <<lookupVars, templateVars, qgraph, options, timeout, texts, edge_references, nodes_with_id, nodes_so_far,
                   loop_index, cypher, requests, mapperVars, response, error, raised, phases>>

\* one iteration of the loop over the nodes with identifiers, lines 174-179
MatchNodeWithId ==
    /\ pc = "with_id"
    /\ LET n == nodes_with_id[loop_index]
           m == NodeMatch(node_references, n)
           so_far == Append(nodes_so_far, n)
       IN  /\ node_references' = m.refs
           /\ nodes_so_far' = so_far
           /\ match_strings' = match_strings \o m.clauses \o <<WithClause(so_far)>>
    /\ IF loop_index < Len(nodes_with_id)
       THEN loop_index' = loop_index + 1 /\ pc' = pc
       ELSE loop_index' = 1 /\ pc' = FirstLoop({}, << >>, qgraph.edges)
    /\ UNCHANGED <<lookupVars, templateVars, qgraph, options, timeout, texts, edge_references, orphaned_nodes, nodes_with_id,
                   cypher, requests, mapperVars, response, error, raised, phases>>

\* MatchEdge passing over an edge whose subject or object is no node of the graph
MatchEdge_SkipsDangling ==
    /\ pc = "edges"
    /\ LET edge_id == qgraph.edges[loop_index].k
           e == qgraph.edges[loop_index].v
           subject == KeyOf(Get(e, "subject"))
           object == KeyOf(Get(e, "object"))
       IN  IF ~Has(node_references, subject) \/ ~Has(node_references, object)
           THEN UNCHANGED <<node_references, edge_references, match_strings>>
           ELSE LET m == EdgeMatch(node_references, Get(edge_references, edge_id),
                                   subject, object, GetOr(options, "max_connectivity", -1))
                IN  /\ node_references' = m.nrefs
                    /\ edge_references' = Put(edge_references, edge_id, m.eref)
                    /\ match_strings' = match_strings \o m.clauses
    /\ IF loop_index < Len(qgraph.edges)
       THEN loop_index' = loop_index + 1 /\ pc' = pc
       ELSE loop_index' = 1 /\ pc' = "project"
    /\ UNCHANGED <<lookupVars, templateVars, qgraph, options, timeout, texts, orphaned_nodes, nodes_with_id,
                   nodes_so_far, cypher, requests, mapperVars, response, phases, raised,
                   error>>

\* one iteration of the loop over the edges, lines 182-196
MatchEdge ==
    /\ pc = "edges"
    /\ LET edge_id == qgraph.edges[loop_index].k
           e == qgraph.edges[loop_index].v
           subject == KeyOf(Get(e, "subject"))
           object == KeyOf(Get(e, "object"))
       IN  IF ~Has(node_references, subject) \/ ~Has(node_references, object)
           THEN /\ Raises("KeyError", "compile")
                /\ UNCHANGED <<node_references, edge_references, match_strings, loop_index>>
           ELSE LET m == EdgeMatch(node_references, Get(edge_references, edge_id),
                                   subject, object, GetOr(options, "max_connectivity", -1))
                IN  /\ node_references' = m.nrefs
                    /\ edge_references' = Put(edge_references, edge_id, m.eref)
                    /\ match_strings' = match_strings \o m.clauses
                    /\ IF loop_index < Len(qgraph.edges)
                       THEN loop_index' = loop_index + 1 /\ pc' = pc
                       ELSE loop_index' = 1 /\ pc' = "project"
                    /\ UNCHANGED <<raised, error>>
    /\ UNCHANGED <<lookupVars, templateVars, qgraph, options, timeout, texts, orphaned_nodes, nodes_with_id, nodes_so_far,
                   cypher, requests, mapperVars, response, phases>>

\* the rest of cypher_query_answer_map, lines 198 and 207-245: the query text
AnswerMap ==
    /\ pc = "project"
    /\ \E node_names \in Orders(Keys(qgraph.nodes)),
          sets \in Orders(SetNodes(qgraph.nodes)),
          others \in Orders(Keys(qgraph.nodes) \ SetNodes(qgraph.nodes)),
          edge_names \in Orders(Keys(qgraph.edges)) :
         cypher' = QueryString(Join(match_strings, <<" ">>),
                               Without(options, "max_connectivity"),
                               node_names, sets, others, edge_names)
    /\ pc' = "execute"
    /\ UNCHANGED <<lookupVars, templateVars, qgraph, options, timeout, texts, node_references, edge_references, match_strings,
                   orphaned_nodes, nodes_with_id, nodes_so_far, loop_index, requests,
                   mapperVars, response, error, raised, phases>>

\* RedisDriver.run answers: lines 116-117, the rows as convert_to_dict returns them
Execute ==
    /\ pc = "execute"
    /\ phases' = Append(phases, "execute")
    /\ requests' = Append(requests, GatewayRequest(cypher, timeout))
    /\ \E fills \in ResultFills(ColumnsOf(qgraph), MaxRecords) :
         LET results_dict == convert_to_dict(GraphQueryResult(ColumnsOf(qgraph), fills))
         IN  rows0' = results_dict /\ rows' = results_dict
    /\ pc' = "respond"
    /\ UNCHANGED <<lookupVars, templateVars, qgraph, options, timeout, texts, compilerVars, loop_index, nodes_all, edges_all,
                   collected_nodes, collected_edges, answer_bindings, response, error, raised>>

\* RedisDriver.run raises: the gateway failed
ExecuteFails ==
    /\ pc = "execute"
    /\ phases' = Append(phases, "execute")
    /\ requests' = Append(requests, GatewayRequest(cypher, timeout))
    /\ \E exc \in GatewayErrors : Raises(exc, "execute")
    /\ UNCHANGED <<lookupVars, templateVars, qgraph, options, timeout, texts, compilerVars, loop_index, mapperVars, response>>

\* create_TRAPI_kg_response is entered, lines 122-128
CreateResponse ==
    /\ pc = "respond"
    /\ phases' = Append(phases, "map")
    /\ nodes_all' = << >>
    /\ edges_all' = << >>
    /\ collected_nodes' = {}
    /\ collected_edges' = {}
    /\ answer_bindings' = << >>
    /\ loop_index' = 1
    /\ pc' = "rows"
    /\ UNCHANGED <<lookupVars, templateVars, qgraph, options, timeout, texts, compilerVars, requests, rows0, rows, response,
                   error, raised>>

\* one iteration of the loop over the rows, lines 130-196
MapRow ==
    /\ pc = "rows"
    /\ loop_index <= Len(rows)
    /\ LET ms == MapOneRow([nodes_all |-> nodes_all, edges_all |-> edges_all,
                            collected_nodes |-> collected_nodes,
                            collected_edges |-> collected_edges],
                           rows[loop_index], KeyList(qgraph.nodes), KeyList(qgraph.edges))
       IN  /\ rows' = [rows EXCEPT ![loop_index] = ms.row]
           /\ IF ms.exc # NoException
              THEN /\ Raises(ms.exc, "map")
                   /\ UNCHANGED <<nodes_all, edges_all, collected_nodes, collected_edges,
                                  answer_bindings, loop_index>>
              ELSE /\ nodes_all' = ms.nodes_all
                   /\ edges_all' = ms.edges_all
                   /\ collected_nodes' = ms.collected_nodes
                   /\ collected_edges' = ms.collected_edges
                   /\ answer_bindings' =
                          Append(answer_bindings, [node_bindings |-> ms.node_bindings,
                                                   edge_bindings |-> ms.edge_bindings])
                   /\ loop_index' = loop_index + 1
                   /\ pc' = pc
                   /\ UNCHANGED <<raised, error>>
    /\ UNCHANGED <<lookupVars, templateVars, qgraph, options, timeout, texts, compilerVars, requests, rows0, response, phases>>

\* line 197 and lines 118-119, then _GraphInterface.answer_trapi_question
Return ==
    /\ pc = "rows"
    /\ loop_index > Len(rows)
    /\ response' = [returned |-> TRUE,
                    knowledge_graph |-> [nodes |-> nodes_all, edges |-> edges_all],
                    results |-> answer_bindings,
                    query_graph |-> qgraph]
    /\ pc' = "done"
    /\ UNCHANGED <<lookupVars, templateVars, qgraph, options, timeout, texts, compilerVars, loop_index, requests, mapperVars,
                   error, raised, phases>>

\* answer_TRAPI_question on the calls that reach the gateway and the mapper
AnswerCalls ==
    { Call(g, << >>, t) : g \in AnswerGraphs, t \in TimeoutChoices }
    \ { Call(g, << >>, PyNone) : g \in {h \in AnswerGraphs : h.edges # << >>} }
Init == InitCall(AnswerCalls)
Next ==
    \/ CreateReferences
    \/ MatchOrphan
    \/ MatchNodeWithId
    \/ MatchEdge
    \/ AnswerMap
    \/ Execute
    \/ ExecuteFails
    \/ CreateResponse
    \/ MapRow
    \/ Return
Spec == Init /\ [][Next]_vars

\* transplile_TRAPI_cypher is called again with the same question and options:
\* the text of the compilation that ended is kept and a second one starts
Recompile ==
    /\ pc = "execute"
    /\ texts = << >>
    /\ texts' = Append(texts, cypher)
    /\ pc' = "start"
    /\ node_references' = << >>
    /\ edge_references' = << >>
    /\ match_strings' = << >>
    /\ orphaned_nodes' = {}
    /\ nodes_with_id' = << >>
    /\ nodes_so_far' = << >>
    /\ cypher' = << >>
    /\ phases' = << >>
    /\ UNCHANGED <<lookupVars, templateVars, qgraph, options, timeout, loop_index, requests,
                   mapperVars, response, error, raised>>

\* the compiler alone, on every query graph of CompilerGraphs
CompilerCalls == { Call(g, kwargs, PyNone) : g \in CompilerGraphs, kwargs \in OptionChoices }
InitCompiler == InitCall(CompilerCalls)
NextCompiler ==
    \/ CreateReferences
    \/ MatchOrphan
    \/ MatchNodeWithId
    \/ MatchEdge
    \/ AnswerMap
SpecCompiler == InitCompiler /\ [][NextCompiler]_vars

\* the compiler called twice on the same question, on the graphs of several nodes
TwiceCalls == { Call(g, kwargs, PyNone) : g \in ShapeGraphs, kwargs \in OptionChoices }
InitTwice == InitCall(TwiceCalls)
NextTwice ==
    \/ CreateReferences
    \/ MatchOrphan
    \/ MatchNodeWithId
    \/ MatchEdge
    \/ AnswerMap
    \/ Recompile
SpecTwice == InitTwice /\ [][NextTwice]_vars

-----------------------------------------------------------------------------
(* bl_helper: BLHelper.get_most_specific_concept *)

\* answer_TRAPI_question is not called
NoCall ==
    /\ pc = "idle"
    /\ qgraph = [nodes |-> << >>, edges |-> << >>]
    /\ options = << >>
    /\ timeout = PyNone
    /\ node_references = << >>
    /\ edge_references = << >>
    /\ match_strings = << >>
    /\ orphaned_nodes = {}
    /\ nodes_with_id = << >>
    /\ nodes_so_far = << >>
    /\ loop_index = 1
    /\ cypher = << >>
    /\ texts = << >>
    /\ requests = << >>
    /\ rows0 = << >>
    /\ rows = << >>
    /\ nodes_all = << >>
    /\ edges_all = << >>
    /\ collected_nodes = {}
    /\ collected_edges = {}
    /\ answer_bindings = << >>
    /\ response = NoResponse
    /\ error = NoError
    /\ raised = NoRaise
    /\ phases = << >>

\* the concepts of the lookup service
Concepts == <<"gene", "gene_or_gene_product", "named_thing">>
ConceptSet == {Concepts[i] : i \in DOMAIN Concepts}

\* the longest concept_list
MaxConcepts == 2
ConceptLists == UNION { [1..n -> ConceptSet] : n \in 0..MaxConcepts }

\* the ancestor lists the service may answer with
AncestorLists == { SelectSeq(Concepts, LAMBDA c : c \in S) : S \in SUBSET ConceptSet }

\* the status code of line 16
StatusOK == 200

\* what session.get may give, line 15: a 200 response with any ancestor list, a
\* response of another status with a body or none, or an exception
Responses ==
    { [exc |-> NoException, status_code |-> StatusOK, json |-> PyList(a)] : a \in AncestorLists }
    \cup { [exc |-> NoException, status_code |-> 404, json |-> PyList(a)] :
             a \in {<< >>, Concepts} }
    \cup { [exc |-> "ConnectError", status_code |-> 0, json |-> PyNone] }

\* the response of a lookup that has none yet
NotReceived == [exc |-> NoException, status_code |-> 0, json |-> PyNone]

\* make_request after the response, lines 16-19
make_request(resp) == IF resp.status_code = StatusOK THEN resp.json ELSE PyNone

RECURSIVE Parents(_)
\* line 30: the truthy results of the lookups, concatenated in input order
Parents(results) ==
    IF results = << >> THEN << >>
    ELSE (IF Truthy(results[1]) THEN results[1].v ELSE << >>) \o Parents(Tail(results))

\* line 31
MostSpecific(concepts, parents) ==
    SelectSeq(concepts, LAMBDA x : ~(\E k \in DOMAIN parents : parents[k] = x))

\* lines 25-29: one coroutine per concept, all of them scheduled by gather
Gather ==
    /\ lookup_pc = "start"
    /\ tasks' = [i \in DOMAIN concept_list |->
                    [concept |-> concept_list[i], state |-> "scheduled",
                     response |-> NotReceived, exc |-> NoException, result |-> PyNone]]
    /\ lookup_pc' = "gather"
    /\ UNCHANGED <<answerVars, templateVars, concept_list, completed, most_specific>>

\* lines 14-15: a lookup sends its request and waits for the response
SendRequest(i) ==
    /\ tasks[i].state = "scheduled"
    /\ tasks' = [tasks EXCEPT ![i].state = "waiting"]
    /\ UNCHANGED <<answerVars, templateVars, lookup_pc, concept_list, completed, most_specific>>

\* lines 15-19: the response of a lookup arrives and the lookup completes
Respond(i) ==
    /\ tasks[i].state = "waiting"
    /\ \E resp \in Responses :
         tasks' = [tasks EXCEPT ![i].state = "done",
                                ![i].response = resp,
                                ![i].exc = resp.exc,
                                ![i].result = make_request(resp)]
    /\ completed' = Append(completed, i)
    /\ UNCHANGED <<answerVars, templateVars, lookup_pc, concept_list, most_specific>>

\* GatherReturns that does not wait for the lookups that have not completed
GatherReturns_Eager ==
    /\ lookup_pc = "gather"
    /\ \A i \in DOMAIN tasks : tasks[i].exc = NoException
    /\ most_specific' = MostSpecific(concept_list,
                                     Parents([i \in DOMAIN tasks |-> tasks[i].result]))
    /\ lookup_pc' = "done"
    /\ UNCHANGED <<answerVars, templateVars, concept_list, tasks, completed>>

\* lines 29-31: gather returns the results in input order once every lookup
\* has completed, and the result is computed
GatherReturns ==
    /\ lookup_pc = "gather"
    /\ \A i \in DOMAIN tasks : tasks[i].state = "done" /\ tasks[i].exc = NoException
    /\ most_specific' = MostSpecific(concept_list,
                                     Parents([i \in DOMAIN tasks |-> tasks[i].result]))
    /\ lookup_pc' = "done"
    /\ UNCHANGED <<answerVars, templateVars, concept_list, tasks, completed>>

\* line 29 with return_exceptions=False: the exception of a lookup leaves
\* gather, and the call, while the other lookups go on
GatherRaises ==
    /\ lookup_pc = "gather"
    /\ \E i \in DOMAIN tasks : tasks[i].state = "done" /\ tasks[i].exc # NoException
    /\ lookup_pc' = "raised"
    /\ UNCHANGED <<answerVars, templateVars, concept_list, tasks, completed, most_specific>>

\* get_most_specific_concept on every concept list of ConceptLists
InitLookups ==
    /\ NoCall
    /\ NoTemplates
    /\ lookup_pc = "start"
    /\ concept_list \in ConceptLists
    /\ tasks = << >>
    /\ completed = << >>
    /\ most_specific = << >>
NextLookups ==
    \/ Gather
    \/ \E i \in DOMAIN tasks : SendRequest(i)
    \/ \E i \in DOMAIN tasks : Respond(i)
    \/ GatherReturns
    \/ GatherRaises
SpecLookups == InitLookups /\ [][NextLookups]_vars

-----------------------------------------------------------------------------
(* question: Question.transform_schema_to_question_template *)

\* the node types of the graph schemas
SchemaTypes == {"biolink:Gene", "biolink:Disease"}

\* the edge lists of the graph schemas
EdgeSets == { << >>, <<"biolink:treats">>,
              <<"biolink:treats", "biolink:causes", "biolink:treats">> }

\* the dicts with keys among keys, in every order, and values among values
Dicts(keys, values) ==
    UNION { UNION { { [i \in DOMAIN ks |-> Entry(ks[i], f[i])] : f \in [DOMAIN ks -> values] } :
                    ks \in Orders(K) } : K \in SUBSET keys }

TargetSets == Dicts(SchemaTypes, EdgeSets)
GraphSchemas == Dicts(SchemaTypes, TargetSets)

\* the elements of a list
Elements(list) == {list[i] : i \in DOMAIN list}

\* lines 85-104: the question graph of a source type and a target type, its
\* edges in the order the set of line 98 is iterated in
QuestionGraph(source_type, target_type, order) ==
    [nodes |-> << [id |-> "n1", type |-> source_type],
                  [id |-> "n2", type |-> target_type] >>,
     edges |-> [k \in DOMAIN order |->
                   [id |-> <<"e", k - 1>>, source_id |-> "n1", target_id |-> "n2",
                    type |-> order[k]]],
     bound |-> TRUE]

\* lines 82-83: the next source type of the schema
SourceType ==
    /\ template_pc = "sources"
    /\ source_index <= Len(graph_schema)
    /\ target_index' = 1
    /\ template_pc' = "targets"
    /\ UNCHANGED <<answerVars, lookupVars, graph_schema, source_index, question_graph,
                   question_templates>>

\* lines 84-105: the next target type of the source type
TargetType ==
    /\ template_pc = "targets"
    /\ target_index <= Len(graph_schema[source_index].v)
    /\ LET source_type == graph_schema[source_index].k
           target == graph_schema[source_index].v[target_index]
       IN  \E order \in Orders(Elements(target.v)) :
               question_graph' = QuestionGraph(source_type, target.k, order)
    /\ target_index' = target_index + 1
    /\ UNCHANGED <<answerVars, lookupVars, template_pc, graph_schema, source_index,
                   question_templates>>

\* line 106, after the loop of line 84: the question graph is appended, or is
\* not bound yet and the call ends with UnboundLocalError
AppendTemplate ==
    /\ template_pc = "targets"
    /\ target_index > Len(graph_schema[source_index].v)
    /\ IF question_graph.bound
       THEN /\ question_templates' = Append(question_templates, [query_graph |-> question_graph])
            /\ source_index' = source_index + 1
            /\ template_pc' = "sources"
       ELSE /\ template_pc' = "raised"
            /\ UNCHANGED <<question_templates, source_index>>
    /\ UNCHANGED <<answerVars, lookupVars, graph_schema, target_index, question_graph>>

\* line 107
ReturnTemplates ==
    /\ template_pc = "sources"
    /\ source_index > Len(graph_schema)
    /\ template_pc' = "done"
    /\ UNCHANGED <<answerVars, lookupVars, graph_schema, source_index, target_index,
                   question_graph, question_templates>>

\* transform_schema_to_question_template on every schema of GraphSchemas
InitTemplates ==
    /\ NoCall
    /\ NoLookups
    /\ template_pc = "sources"
    /\ graph_schema \in GraphSchemas
    /\ source_index = 1
    /\ target_index = 1
    /\ question_graph = Unbound
    /\ question_templates = << >>
NextTemplates ==
    \/ SourceType
    \/ TargetType
    \/ AppendTemplate
    \/ ReturnTemplates
SpecTemplates == InitTemplates /\ [][NextTemplates]_vars

-----------------------------------------------------------------------------
(* The result mapper: what the rows held, read off rows0 *)

RECURSIVE Flatten(_)
Flatten(ss) == IF ss = << >> THEN << >> ELSE ss[1] \o Flatten(Tail(ss))

\* the records of a cell, a record that is no list counting as a list of one
CellRecords(row, column) ==
    LET cell == Get(row, column) IN IF cell.islist THEN cell.val ELSE <<cell.val>>

\* every node record of the result set: row order, then node id order, then cell order
NodeOccurrences ==
    Flatten([r \in DOMAIN rows0 |->
        Flatten([i \in DOMAIN qgraph.nodes |-> CellRecords(rows0[r], qgraph.nodes[i].k)])])

\* every edge record of the result set with its type__ and id_pairs__ entries
EdgeCellOccurrences(row, qg_id) ==
    [j \in DOMAIN CellRecords(row, qg_id) |->
        [rec |-> CellRecords(row, qg_id)[j],
         type |-> Get(row, "type__" \o qg_id).val[j],
         pair |-> Get(row, "id_pairs__" \o qg_id).val[j]]]
EdgeOccurrences ==
    Flatten([r \in DOMAIN rows0 |->
        Flatten([i \in DOMAIN qgraph.edges |->
            EdgeCellOccurrences(rows0[r], qgraph.edges[i].k)])])

\* the index of the first occurrence of a store-id in a sequence of records
FirstIndex(records, store_id) ==
    CHOOSE i \in DOMAIN records :
        /\ Has(records[i], "id") /\ Get(records[i], "id") = store_id
        /\ \A j \in 1..(i - 1) : ~(Has(records[j], "id") /\ Get(records[j], "id") = store_id)

StoreIds(records) ==
    { Get(records[i], "id") : i \in {j \in DOMAIN records : Has(records[j], "id")} }

EdgeRecords == [i \in DOMAIN EdgeOccurrences |-> EdgeOccurrences[i].rec]

\* some store-id occurs in two records of the sequence
Repeats(records) ==
    \E i, j \in DOMAIN records :
        i < j /\ Has(records[i], "id") /\ Has(records[j], "id")
              /\ Get(records[i], "id") = Get(records[j], "id")

\* C1: once create_TRAPI_kg_response has returned, knowledge_graph.nodes has exactly one
\* entry per distinct store-id of the node cells of all rows, and knowledge_graph.edges
\* exactly one per distinct store-id of the edge cells, whatever the repetitions.
C1_OneEntryPerStoreId ==
    response.returned =>
        /\ Keys(response.knowledge_graph.nodes) = StoreIds(NodeOccurrences)
        /\ Len(response.knowledge_graph.nodes) = Cardinality(StoreIds(NodeOccurrences))
        /\ Keys(response.knowledge_graph.edges) = StoreIds(EdgeRecords)
        /\ Len(response.knowledge_graph.edges) = Cardinality(StoreIds(EdgeRecords))

\* a response over several rows in which a node store-id repeats
C1_Witness ==
    /\ response.returned
    /\ Len(rows0) >= 2
    /\ Repeats(NodeOccurrences)
    /\ Len(response.knowledge_graph.nodes) < Len(NodeOccurrences)

\* the binding list the rows call for: one {id} per record of the cell, in cell order
ExpectedBinding(row, qg_id) ==
    [j \in DOMAIN CellRecords(row, qg_id) |-> [id |-> Get(CellRecords(row, qg_id)[j], "id")]]

\* C2: the response has one AnswerRow per input row, in row order, and the binding list
\* of every node and edge query-graph id has one {id} per record of the row's cell, in
\* cell order, store-ids registered earlier included.
C2_BindingsPerRecord ==
    response.returned =>
        /\ Len(response.results) = Len(rows0)
        /\ \A r \in DOMAIN rows0 :
             /\ \A i \in DOMAIN qgraph.nodes :
                  Get(response.results[r].node_bindings, qgraph.nodes[i].k)
                      = ExpectedBinding(rows0[r], qgraph.nodes[i].k)
             /\ \A i \in DOMAIN qgraph.edges :
                  Get(response.results[r].edge_bindings, qgraph.edges[i].k)
                      = ExpectedBinding(rows0[r], qgraph.edges[i].k)

\* a response in which the cell of a set node held two records, one of them with a
\* store-id that was registered before it
C2_Witness ==
    /\ response.returned
    /\ \E r \in DOMAIN rows0 : \E i \in DOMAIN qgraph.nodes :
         LET binding == Get(response.results[r].node_bindings, qgraph.nodes[i].k)
         IN  /\ Get(rows0[r], qgraph.nodes[i].k).islist
             /\ Len(binding) = 2
             /\ \E j \in DOMAIN qgraph.nodes :
                  /\ j < i
                  /\ binding[2] \in
                         { Get(response.results[r].node_bindings, qgraph.nodes[j].k)[x] :
                             x \in DOMAIN Get(response.results[r].node_bindings,
                                              qgraph.nodes[j].k) }

\* the knowledge graph entries the first occurrence of a store-id calls for
ExpectedAttributes(record, reserved) ==
    LET ks == SelectSeq(KeyList(record), LAMBDA key : key \notin reserved)
    IN  [i \in DOMAIN ks |-> [type |-> "NA", value |-> Get(record, ks[i]), name |-> ks[i]]]
ExpectedNode(record) ==
    [name |-> IF Has(record, "name") THEN Get(record, "name") ELSE PyStr(<< >>),
     attributes |-> ExpectedAttributes(record, {"id", "name", "attributes"})]
ExpectedEdge(occurrence) ==
    [subject |-> occurrence.pair[1],
     object |-> occurrence.pair[2],
     predicate |-> IF occurrence.type[1] = "biolink."
                   THEN <<"biolink:">> \o Tail(occurrence.type)
                   ELSE occurrence.type,
     attributes |-> ExpectedAttributes(occurrence.rec,
                                       {"id", "subject", "object", "predicate", "attributes"})]

\* C3: the knowledge graph entry of a store-id is the one built from its first
\* occurrence in row order, then cell order; later occurrences change nothing of it.
C3_FirstSeenRetained ==
    response.returned =>
        /\ \A i \in DOMAIN response.knowledge_graph.nodes :
             LET entry == response.knowledge_graph.nodes[i]
             IN  entry.v = ExpectedNode(NodeOccurrences[FirstIndex(NodeOccurrences, entry.k)])
        /\ \A i \in DOMAIN response.knowledge_graph.edges :
             LET entry == response.knowledge_graph.edges[i]
             IN  entry.v = ExpectedEdge(EdgeOccurrences[FirstIndex(EdgeRecords, entry.k)])

\* a response whose rows held one store-id in two records with different fields
C3_Witness ==
    /\ response.returned
    /\ \E i, j \in DOMAIN NodeOccurrences :
         /\ i < j
         /\ Get(NodeOccurrences[i], "id") = Get(NodeOccurrences[j], "id")
         /\ NodeOccurrences[i] # NodeOccurrences[j]

\* some node or edge record of the result set has no id
LacksIdentity ==
    \/ \E i \in DOMAIN NodeOccurrences : ~Has(NodeOccurrences[i], "id")
    \/ \E i \in DOMAIN EdgeRecords : ~Has(EdgeRecords[i], "id")

\* C4: when some matched node or edge record lacks its id, the map call fails (the
\* missing identity raises KeyError, or the falsy identity of an earlier record
\* AssertionError) and the caller gets neither a knowledge graph nor an answer row.
C4_MissingIdentityFails ==
    LacksIdentity =>
        /\ response = NoResponse
        /\ pc # "done"
        /\ pc = "raised" => /\ raised.phase = "map"
                            /\ raised.exc \in {"KeyError", "AssertionError"}
                            /\ error.type = raised.exc

\* the call failed on a record without id after earlier rows were mapped
C4_Witness ==
    /\ LacksIdentity
    /\ pc = "raised"
    /\ raised.exc = "KeyError"
    /\ loop_index > 1
    /\ nodes_all # << >>

\* C5 as stated: compile-time and map-time failures reach the caller as one
\* QuestionAnsweringError wrapping the cause, gateway errors unchanged.
C5_WrappedFailures ==
    pc = "raised" =>
        IF raised.phase \in {"compile", "map"}
        THEN error.type = "QuestionAnsweringError" /\ error.cause = raised.exc
        ELSE error.type = raised.exc

\* C5 as amended: every failure of answer_TRAPI_question, raised by the compiler, the
\* gateway or the mapper, reaches the caller as the exception that was raised, not
\* wrapped, and no response is returned.
C5_FailuresPropagateUnchanged ==
    /\ pc = "raised" =>
         /\ error.type = raised.exc
         /\ error.cause = NoException
         /\ response = NoResponse
         /\ raised.phase = "compile" =>
                raised.exc \in {"ValueError", "TypeError", "UnboundLocalError", "KeyError"}
         /\ raised.phase = "map" => raised.exc \in {"KeyError", "AssertionError"}
         /\ raised.phase = "execute" => raised.exc \in GatewayErrors
    /\ pc # "raised" => error = NoError

\* the mapper failed and the caller holds its exception
C5_Witness == pc = "raised" /\ raised.phase = "map" /\ error.type = "AssertionError"

\* s is a prefix of t
IsPrefix(s, t) == Len(s) <= Len(t) /\ \A i \in DOMAIN s : s[i] = t[i]

\* C6: the steps run in the order compile, execute, map; the gateway gets exactly one
\* request, with the compiled text and the caller's timeout; none when the compiler
\* fails; and the mapper never runs when the gateway fails.
C6_CompileExecuteMap ==
    /\ IsPrefix(phases, <<"compile", "execute", "map">>)
    /\ Len(requests) = (IF Len(phases) >= 2 THEN 1 ELSE 0)
    /\ \A i \in DOMAIN requests :
         requests[i].query = cypher /\ requests[i].timeout = timeout
    /\ pc = "done" => Len(phases) = 3 /\ Len(requests) = 1
    /\ (pc = "raised" /\ raised.phase = "compile") => phases = <<"compile">> /\ requests = << >>
    /\ (pc = "raised" /\ raised.phase = "execute") =>
           /\ phases = <<"compile", "execute">>
           /\ rows = << >> /\ answer_bindings = << >> /\ nodes_all = << >>

\* a call with a timeout ran to its response
C6_Witness == pc = "done" /\ timeout = PyInt("30") /\ Len(requests) = 1 /\ Len(rows0) >= 1

\* ---------------------------------------------------------------------------
\* The compiled references
\* ---------------------------------------------------------------------------

\* the values a pattern gives under a key: none, the one string, or the list
ValuesOf(pattern, key) ==
    LET val == GetOr(pattern, key, PyNone)
    IN  IF val.t = "str" THEN <<val.v[1]>>
        ELSE IF val.t = "list" THEN val.v
        ELSE << >>

\* sub occurs in text
Contains(text, sub) ==
    \E i \in 1..(Len(text) - Len(sub) + 1) : SubSeq(text, i, i + Len(sub) - 1) = sub

\* the number of places of text that hold the token tok
Count(text, tok) == Cardinality({i \in DOMAIN text : text[i] = tok})

\* the references exist: the constructors of lines 156-157 have all returned
Compiled == pc \in {"orphans", "with_id", "edges", "project", "execute"}

\* the identifier term of a node variable
IdTerm(name, identifier) == <<name, ".id = '">> \o identifier \o <<"'">>

\* the parenthesized OR-group of the identifier terms
IdentifierGroup(name, ids) ==
    <<"( ">> \o Join([j \in DOMAIN ids |-> IdTerm(name, ids[j])], <<" OR ">>) \o <<")">>

\* the identifier as an equality property of the inline literal
InlineId(identifier) == <<bq, "id", bq, ": ", "'">> \o identifier \o <<"'">>

\* C7: a node pattern with n >= 2 identifiers compiles to a filter that is a
\* parenthesized OR-group of exactly n terms <var>.id = '<identifier>' and has
\* no id in its inline property literal; a node pattern with exactly one
\* identifier, a string or a one-element list, has that identifier as an
\* equality property of the inline literal and no identifier filter; a
\* reference never has both forms.
C7_IdentifierFilterShape ==
    Compiled =>
        \A i \in DOMAIN node_references :
            LET name == node_references[i].k
                ref == node_references[i].v
                ids == ValuesOf(Get(qgraph.nodes, name), "id")
            IN  /\ Len(ids) >= 2 =>
                    /\ ref.filters = IdentifierGroup(name, ids)
                    /\ Count(ref.filters, ".id = '") = Len(ids)
                    /\ ~Contains(ref.prop_string, <<bq, "id", bq>>)
                /\ Len(ids) = 1 =>
                    /\ Contains(ref.prop_string, InlineId(ids[1]))
                    /\ ~Contains(ref.filters, <<".id = '">>)
                /\ ~(/\ Contains(ref.filters, <<".id = '">>)
                     /\ Contains(ref.prop_string, <<bq, "id", bq>>))

\* a compiled query of a graph where one node has two identifiers and another
\* has a one-element identifier list: the OR-group and the inline property are
\* both in the query text
C7_Witness ==
    /\ pc = "execute"
    /\ \E i, j \in DOMAIN qgraph.nodes :
         LET many == ValuesOf(qgraph.nodes[i].v, "id")
             one == GetOr(qgraph.nodes[j].v, "id", PyNone)
         IN  /\ Len(many) = 2
             /\ one.t = "list" /\ Len(one.v) = 1
             /\ Contains(cypher, IdentifierGroup(qgraph.nodes[i].k, many))
             /\ Contains(cypher, InlineId(one.v[1]))

\* the parenthesized OR-group of the label-membership tests of a node
CategoryGroup(name, categories) ==
    <<"(">> \o Join(LabelFilters(<<name>>, categories), <<" OR ">>) \o <<")">>

\* the filter of identifier group and category group, a side left out when empty
CombinedFilter(name, ids, categories) ==
    LET sides == (IF Len(ids) >= 2 THEN <<IdentifierGroup(name, ids)>> ELSE << >>)
                 \o (IF Len(categories) >= 1 THEN <<CategoryGroup(name, categories)>>
                     ELSE << >>)
    IN  Join(sides, <<" AND ">>)

\* C8: the filter of a compiled node reference is (identifierGroup) AND
\* (categoryGroup), the category group being a parenthesized OR-group with one
\* label-membership test per category of the pattern; a side is left out when
\* it is empty, and the filter is empty when the node has neither several
\* identifiers nor a category.
C8_CombinedFilter ==
    Compiled =>
        \A i \in DOMAIN node_references :
            LET name == node_references[i].k
                pattern == Get(qgraph.nodes, name)
            IN  node_references[i].v.filters =
                    CombinedFilter(name, ValuesOf(pattern, "id"), ValuesOf(pattern, "category"))

\* the type term of an edge variable
TypeTerm(name, predicate) ==
    <<"type(", name, ") = \"">> \o Replace(predicate, "biolink:", "biolink.") \o <<"\" ">>

\* the inline type annotation of an edge
TypeAnnotation(predicate) == <<":", bq>> \o Replace(predicate, "biolink:", "biolink.") \o <<bq>>

\* the text of the k-th render of an edge reference
RenderOf(ref, k) == EdgeStr([ref EXCEPT !.num = k - 1]).text

\* C9: an edge pattern with two or more predicates compiles to a filter that
\* is an OR-group with one term type(<var>) = "<predicate>" per predicate and
\* has no inline type annotation on any render; an edge pattern with exactly
\* one predicate, a string or a one-element list, has the inline type
\* annotation on its first render and an empty filter.
C9_EdgeFilterShape ==
    Compiled =>
        \A i \in DOMAIN edge_references :
            LET name == edge_references[i].k
                ref == edge_references[i].v
                predicates == ValuesOf(Get(qgraph.edges, name), "predicate")
            IN  /\ Len(predicates) >= 2 =>
                    /\ ref.filters = Join([j \in DOMAIN predicates |->
                                              TypeTerm(name, predicates[j])], <<" OR ">>)
                    /\ \A k \in 1..2 : ~Contains(RenderOf(ref, k), <<":", bq>>)
                /\ Len(predicates) = 1 =>
                    /\ Contains(RenderOf(ref, 1), <<name>> \o TypeAnnotation(predicates[1]))
                    /\ ref.filters = << >>

\* the edges the loop of lines 182-196 has been through
MatchedEdges ==
    IF pc \in {"project", "execute"} THEN DOMAIN qgraph.edges
    ELSE IF pc = "edges" THEN 1..(loop_index - 1)
    ELSE {}

\* the MATCH clause of an edge among the clauses emitted so far
EdgeClause(edge_id) ==
    CHOOSE c \in {match_strings[k] : k \in DOMAIN match_strings} :
        \E k \in 1..(Len(c) - 1) : c[k] \in {"-[", "<-["} /\ c[k + 1] = edge_id

\* C10: an edge is reversed, and its pattern emitted as
\* (object)-[edge]-(subject), if and only if the object node pattern carries at
\* least one identifier and the subject node pattern carries none; otherwise,
\* an endpoint with an empty identifier list counting as one with none, it is
\* not reversed and its pattern is emitted as (subject)-[edge]-(object).
C10_ReversedIff ==
    \A i \in MatchedEdges :
        LET edge_id == qgraph.edges[i].k
            e == qgraph.edges[i].v
            subject == KeyOf(Get(e, "subject"))
            object == KeyOf(Get(e, "object"))
            bound(n) == Len(ValuesOf(Get(qgraph.nodes, n), "id")) >= 1
            backwards == bound(object) /\ ~bound(subject)
        IN  /\ Get(edge_references, edge_id).reversed = backwards
            /\ EdgeClause(edge_id)[2] = IF backwards THEN object ELSE subject

\* the tokens that open and close the edge of a MATCH clause
ArrowOf(clause, edge_id) ==
    LET k == CHOOSE k \in 1..(Len(clause) - 1) :
                 clause[k] \in {"-[", "<-["} /\ clause[k + 1] = edge_id
        closing == {j \in (k + 1)..Len(clause) : clause[j] \in {"]->", "]-"}}
        j == CHOOSE j \in closing : \A l \in closing : j <= l
    IN  <<clause[k], clause[j]>>

\* the edge pattern is directed: as it says, or when it says nothing, exactly
\* when it has at least one predicate
DirectedPattern(e) ==
    IF Has(e, "directed") THEN Truthy(Get(e, "directed"))
    ELSE Len(ValuesOf(e, "predicate")) >= 1

\* C11: an edge renders with -> when it is directed and not reversed, with <-
\* when directed and reversed, and with a plain - when undirected; directed is
\* true by default exactly when the edge has at least one predicate, and an
\* edge with no predicate is undirected unless directed is explicitly set.
C11_DirectionToken ==
    \A i \in MatchedEdges :
        LET edge_id == qgraph.edges[i].k
            ref == Get(edge_references, edge_id)
            arrow == ArrowOf(EdgeClause(edge_id), edge_id)
        IN  /\ ref.directed = DirectedPattern(qgraph.edges[i].v)
            /\ arrow = IF ref.directed /\ ~ref.reversed THEN <<"-[", "]->">>
                       ELSE IF ref.directed /\ ref.reversed THEN <<"<-[", "]-">>
                       ELSE <<"-[", "]-">>

\* a compiled query with an edge that is directed by its predicate alone and
\* reversed, rendered with <-
C11_Witness ==
    /\ pc = "execute"
    /\ \E i \in DOMAIN qgraph.edges :
         LET edge_id == qgraph.edges[i].k
             ref == Get(edge_references, edge_id)
         IN  /\ ~Has(qgraph.edges[i].v, "directed")
             /\ ref.directed /\ ref.reversed
             /\ Contains(cypher, <<"<-[", edge_id>>)

\* the match text assembled so far, line 198
MatchText == Join(match_strings, <<" ">>)

\* the tokens a rendered node or edge follows, and those that follow a bare name
NodeOpeners == {"MATCH (", "(", "((indegree(", ") + outdegree("}
NodeClosers == {")", ") + outdegree(", ") ) < "}
EdgeOpeners == {"-[", "<-["}
EdgeClosers == {"]->", "]-"}

\* the places of text where the variable name occurs, and those where it is rendered
Occurrences(text, name) == {k \in DOMAIN text : text[k] = name}
Renders(text, name, openers) ==
    {k \in Occurrences(text, name) : k > 1 /\ text[k - 1] \in openers}

\* the least of a non-empty set of places
First(S) == CHOOSE k \in S : \A l \in S : k <= l

\* the declaration forms: name, label or type annotation, property literal
NodeDeclaration(ref) ==
    ref.name
        \o (IF Len(ref.labels) > 0
            THEN <<":", bq>> \o Replace(ref.labels[1], "biolink:", "biolink.") \o <<bq>>
            ELSE << >>)
        \o ref.prop_string
EdgeDeclaration(ref) ==
    ref.name \o (IF ref.label.t = "str" THEN TypeAnnotation(ref.label.v[1]) ELSE << >>)

\* the renders of one variable: as many as its count, the first one the first
\* occurrence of the variable and a declaration, the later ones bare names
RenderedOnce(text, ref, openers, declaration, closers) ==
    LET name == ref.name[1]
        renders == Renders(text, name, openers)
        first == First(renders)
    IN  /\ ref.num = Cardinality(renders)
        /\ renders = {} => Occurrences(text, name) = {}
        /\ renders # {} =>
             /\ first = First(Occurrences(text, name))
             /\ SubSeq(text, first, first + Len(declaration) - 1) = declaration
             /\ \A k \in renders \ {first} : text[k + 1] \in closers

\* the counts of the references only increase
CountsIncrease ==
    /\ \A i \in DOMAIN node_references \cap DOMAIN node_references' :
         node_references'[i].v.num >= node_references[i].v.num
    /\ \A i \in DOMAIN edge_references \cap DOMAIN edge_references' :
         edge_references'[i].v.num >= edge_references[i].v.num

\* C12: the render count of a node or edge reference only increases, by one
\* per render; the render that takes it from 0 to 1 emits the declaration
\* (name, label or type annotation, property literal) and every later render
\* the bare name, so that in the match text the first occurrence of each node
\* and edge variable is its declaration and every later one the bare name.
C12_DeclaredOnce ==
    /\ [](/\ \A i \in DOMAIN node_references :
               LET ref == node_references[i].v
               IN  RenderedOnce(MatchText, ref, NodeOpeners, NodeDeclaration(ref), NodeClosers)
          /\ \A i \in DOMAIN edge_references :
               LET ref == edge_references[i].v
               IN  RenderedOnce(MatchText, ref, EdgeOpeners, EdgeDeclaration(ref),
                                EdgeClosers))
    /\ [][CountsIncrease]_vars

\* a compiled query in which a node was rendered four times: matched by its
\* identifier, then named in an edge pattern and twice in the connectivity bound
C12_Witness ==
    /\ pc = "execute"
    /\ \E i \in DOMAIN node_references :
         /\ node_references[i].v.num = 4
         /\ Cardinality(Renders(MatchText, node_references[i].k, NodeOpeners)) = 4
    /\ \E i \in DOMAIN edge_references : edge_references[i].v.num = 1

\* the place of the MATCH clause of an edge among the clauses emitted so far
EdgeClauseIndex(edge_id) ==
    CHOOSE m \in DOMAIN match_strings : match_strings[m] = EdgeClause(edge_id)

\* the clause is the WHERE clause of an edge
IsEdgeWhere(clause) == clause # << >> /\ clause[1] = "\nWHERE "

\* the WHERE clauses that follow the MATCH clause of an edge, up to the next MATCH
EdgeWheres(edge_id) ==
    LET m == EdgeClauseIndex(edge_id)
        stop == {j \in (m + 1)..Len(match_strings) : ~IsEdgeWhere(match_strings[j])}
        end == IF stop = {} THEN Len(match_strings) ELSE First(stop) - 1
    IN  SubSeq(match_strings, m + 1, end)

\* the non-empty filters among those of the subject, the object and the edge,
\* each in its own parentheses
FilterGroups(subject, object, edge_id) ==
    LET all == <<Get(node_references, subject).filters,
                 Get(node_references, object).filters,
                 Get(edge_references, edge_id).filters>>
        kept == SelectSeq(all, LAMBDA f : f # << >>)
    IN  [j \in DOMAIN kept |-> <<"(">> \o kept[j] \o <<")">>]

\* the constraint of the connectivity bound, when one is configured
BoundGroup(object) ==
    IF Has(options, "max_connectivity")
    THEN << <<"((indegree(", object, ") + outdegree(", object, ") ) < ",
              ToString(Get(options, "max_connectivity")), ")">> >>
    ELSE << >>

\* C13: right after the match pattern of each edge comes one WHERE clause, the
\* AND of exactly the non-empty filters among the subject node filter, the
\* object node filter and the edge filter, each in its own parentheses, with
\* the connectivity constraint after them when a bound is configured; when the
\* three are empty and no bound is configured, the edge has no WHERE clause.
C13_EdgeWhereClause ==
    \A i \in MatchedEdges :
        LET edge_id == qgraph.edges[i].k
            e == qgraph.edges[i].v
            subject == KeyOf(Get(e, "subject"))
            object == KeyOf(Get(e, "object"))
            groups == FilterGroups(subject, object, edge_id) \o BoundGroup(object)
        IN  EdgeWheres(edge_id) =
                IF groups = << >> THEN << >>
                ELSE << <<"\nWHERE ">> \o Join(groups, <<"\nAND ">>) >>

\* a compiled query, without a connectivity bound, of an edge whose subject,
\* object and edge filters are all non-empty
C13_Witness ==
    /\ pc = "execute"
    /\ ~Has(options, "max_connectivity")
    /\ \E i \in DOMAIN qgraph.edges :
         LET edge_id == qgraph.edges[i].k
             e == qgraph.edges[i].v
         IN  /\ Len(FilterGroups(KeyOf(Get(e, "subject")), KeyOf(Get(e, "object")), edge_id)) = 3
             /\ Len(EdgeWheres(edge_id)) = 1
             /\ Count(EdgeWheres(edge_id)[1], "\nAND ") = 2

\* the number of places where sub occurs in text
Times(text, sub) ==
    Cardinality({i \in 1..(Len(text) - Len(sub) + 1) : SubSeq(text, i, i + Len(sub) - 1) = sub})

\* the node pattern is marked as a set
MarkedSet(pattern) == GetOr(pattern, "is_set", PyBool(FALSE)) = PyBool(TRUE)

\* the items of the projection and of the RETURN clause
Collected(id) == <<"collect(", id, ") AS ", id>>
PassedThrough(id) == <<id, " AS ", id>>
TypeOfSet(id) == <<"[node in ", id, " | labels(node)] AS type__", id>>
TypeOfNode(id) == <<"labels(", id, ") AS type__", id>>
TypeOfEdge(id) == <<"[edge in ", id, " | type(edge)] AS type__", id>>
IdPairsOf(id) ==
    <<"[edge in ", id, " | [startNode(edge).id, endNode(edge).id]] AS id_pairs__", id>>

\* the text of the query from its projection on
Projection ==
    LET start == {k \in DOMAIN cypher : cypher[k] \in {"WITH ", "RETURN "}
                                        /\ (k = 1 \/ cypher[k - 1] = "\n")}
    IN  SubSeq(cypher, First(start), Len(cypher))

\* C14: the projection has collect(<id>) AS <id> for every node marked as a
\* set and for every edge and <id> AS <id> for every other node, and the query
\* returns a type__<id> column for every node and edge, mapped over the
\* collected list for set nodes and edges and a direct label lookup for other
\* nodes, and an id_pairs__<id> column of [start id, end id] for every edge.
C14_ProjectionShape ==
    pc = "execute" =>
        /\ \A i \in DOMAIN qgraph.nodes :
             LET n == qgraph.nodes[i].k
                 set == MarkedSet(qgraph.nodes[i].v)
             IN  /\ Times(Projection, Collected(n)) = IF set THEN 1 ELSE 0
                 /\ Times(Projection, PassedThrough(n)) = IF set THEN 0 ELSE 1
                 /\ Times(Projection, TypeOfSet(n)) = IF set THEN 1 ELSE 0
                 /\ Times(Projection, TypeOfNode(n)) = IF set THEN 0 ELSE 1
        /\ \A i \in DOMAIN qgraph.edges :
             LET e == qgraph.edges[i].k
             IN  /\ Times(Projection, Collected(e)) = 1
                 /\ Times(Projection, TypeOfEdge(e)) = 1
                 /\ Times(Projection, IdPairsOf(e)) = 1

\* a compiled query of a graph with a set node, another node that is not a set
\* and an edge
C14_Witness ==
    /\ pc = "execute"
    /\ \E i, j \in DOMAIN qgraph.nodes :
         /\ MarkedSet(qgraph.nodes[i].v)
         /\ ~MarkedSet(qgraph.nodes[j].v)
         /\ Contains(cypher, Collected(qgraph.nodes[i].k))
         /\ Contains(cypher, TypeOfNode(qgraph.nodes[j].k))
    /\ \E i \in DOMAIN qgraph.edges : Contains(cypher, IdPairsOf(qgraph.edges[i].k))

\* C15: compiling the same query graph twice with the same options yields the
\* same query text: the order in which the orphaned nodes are matched and the
\* order of the items of the WITH and RETURN clauses do not vary between two
\* compilations of the same input.
C15_SameTextTwice ==
    pc = "execute" => \A k \in DOMAIN texts : texts[k] = cypher

\* the edges whose subject or object is no key of the node mapping
DanglingEdges ==
    {i \in DOMAIN qgraph.edges :
        \/ ~Has(qgraph.nodes, KeyOf(Get(qgraph.edges[i].v, "subject")))
        \/ ~Has(qgraph.nodes, KeyOf(Get(qgraph.edges[i].v, "object")))}

\* C16: when an edge of the query graph names a subject or object that is no
\* key of the node mapping, assembling the match text fails with the error of
\* a dangling edge reference and no text is returned, wherever that edge stands
\* among the edges and whatever was matched before it.
C16_DanglingEdgeFails ==
    DanglingEdges # {} =>
        /\ cypher = << >>
        /\ pc \in {"start", "orphans", "with_id", "edges", "raised"}
        /\ pc = "edges" => loop_index <= First(DanglingEdges)
        /\ pc = "raised" =>
             /\ raised = [exc |-> "KeyError", phase |-> "compile"]
             /\ error.type = "KeyError"

\* the failure on a dangling second edge, after an orphaned node, a node with
\* an identifier and the first edge were matched
C16_Witness ==
    /\ pc = "raised"
    /\ raised.exc = "KeyError"
    /\ First(DanglingEdges) = 2
    /\ Len(nodes_so_far) >= 1
    /\ \E c \in {match_strings[k] : k \in DOMAIN match_strings} : Contains(c, <<"-[", "e0">>)
    /\ cypher = << >>

\* the keys of a node pattern that are no properties
ReservedKeys == {"id", "category", "name", "is_set"}

\* the extra properties of a node pattern
ExtraProperties(pattern) == SelectSeq(pattern, LAMBDA e : e.k \notin ReservedKeys)

\* the item of a property in the literal: a bare true or false, or a quoted string
PropertyItem(e) ==
    <<bq, e.k, bq, ": ">>
        \o (IF e.v.t = "bool"
            THEN (IF e.v = PyBool(TRUE) THEN <<"true">> ELSE <<"false">>)
            ELSE <<"'">> \o e.v.v[1] \o <<"'">>)

\* C17: the inline property literal of a node holds every extra property of
\* the pattern and none of the reserved keys id, category, name, is_set as a
\* property of its own; a boolean renders as a bare true or false and a string
\* single-quoted; a property whose value is of another type makes the
\* compilation fail with the error of an unsupported property type, whatever
\* the value.
C17_PropertyLiteral ==
    \A i \in DOMAIN qgraph.nodes :
        LET n == qgraph.nodes[i].k
            pattern == qgraph.nodes[i].v
            extras == ExtraProperties(pattern)
            unsupported == \E j \in DOMAIN extras : extras[j].v.t \notin {"bool", "str"}
            malformed == GetOr(pattern, "id", PyNone).t \notin {"none", "str", "list"}
        IN  /\ unsupported =>
                /\ ~Compiled
                /\ (pc = "raised" /\ ~malformed) => raised.exc = "ValueError"
            /\ (Compiled /\ ~unsupported) =>
                LET literal == Get(node_references, n).prop_string
                IN  /\ \A j \in DOMAIN extras : Contains(literal, PropertyItem(extras[j]))
                    /\ \A k \in ReservedKeys \ {"id"} : ~Contains(literal, <<bq, k, bq>>)

RECURSIVE MapRows(_, _, _, _)
\* the loop of line 130 from row i on: the registries and the answer rows when
\* it ends, and the exception that ended it
MapRows(acc, query_graph, results_dict, i) ==
    IF i > Len(results_dict) \/ acc.exc # NoException THEN acc
    ELSE LET ms == MapOneRow(acc, results_dict[i], KeyList(query_graph.nodes),
                             KeyList(query_graph.edges))
         IN  MapRows([nodes_all |-> ms.nodes_all,
                      edges_all |-> ms.edges_all,
                      collected_nodes |-> ms.collected_nodes,
                      collected_edges |-> ms.collected_edges,
                      answer_bindings |->
                          Append(acc.answer_bindings,
                                 [node_bindings |-> ms.node_bindings,
                                  edge_bindings |-> ms.edge_bindings]),
                      exc |-> ms.exc],
                     query_graph, results_dict, i + 1)

\* create_TRAPI_kg_response(query_graph, results_dict): [exc, knowledge_graph, results]
create_TRAPI_kg_response(query_graph, results_dict) ==
    LET end == MapRows([nodes_all |-> << >>, edges_all |-> << >>,
                        collected_nodes |-> {}, collected_edges |-> {},
                        answer_bindings |-> << >>, exc |-> NoException],
                       query_graph, results_dict, 1)
    IN  [exc |-> end.exc,
         knowledge_graph |-> [nodes |-> end.nodes_all, edges |-> end.edges_all],
         results |-> end.answer_bindings]

\* C18: the mapper is a pure fold: it leaves the rows and records it is given
\* unchanged, so that mapping the same rows a second time with the same query
\* graph succeeds and yields the knowledge graph and the answer rows of the
\* first time.
C18_PureFold ==
    /\ rows = rows0
    /\ pc = "done" =>
         LET again == create_TRAPI_kg_response(qgraph, rows)
         IN  /\ again.exc = NoException
             /\ again.knowledge_graph = response.knowledge_graph
             /\ again.results = response.results

\* the clauses emitted so far that match the node n alone
StandaloneMatches(n) ==
    {m \in DOMAIN match_strings :
        LET c == match_strings[m]
        IN  /\ Len(c) >= 3
            /\ c[1] = "MATCH (" /\ c[2] = n /\ c[Len(c)] = ")"
            /\ \A k \in DOMAIN c : c[k] \notin EdgeOpeners}

\* C19: in the assembled match text every node has at most one standalone
\* match clause: a node with an identifier that no edge refers to is matched
\* standalone in the step of the orphaned nodes and not again in the step of
\* the nodes with identifiers.
C19_OneStandaloneMatch ==
    \A i \in DOMAIN qgraph.nodes : Cardinality(StandaloneMatches(qgraph.nodes[i].k)) <= 1

\* the node variables of a clause
NodesOf(clause) ==
    {qgraph.nodes[i].k : i \in {j \in DOMAIN qgraph.nodes :
                                   Renders(clause, qgraph.nodes[j].k, NodeOpeners) # {}}}

\* the names listed by a WITH clause
Listed(clause) == {clause[k] : k \in 2..Len(clause)} \ {", "}

\* C20: every accumulating WITH clause that follows the standalone match of a
\* node with an identifier lists every node variable matched so far in the
\* text, the orphaned nodes without identifiers included, so that no variable
\* matched before it is dropped from scope.
C20_WithKeepsScope ==
    \A m \in DOMAIN match_strings :
        match_strings[m][1] = "WITH " =>
            UNION {NodesOf(match_strings[j]) : j \in 1..(m - 1)} \subseteq Listed(match_strings[m])

\* the node pattern carries at least one identifier
CarriesIdentifier(n) == Len(ValuesOf(Get(qgraph.nodes, n), "id")) >= 1

\* the degree constraint on the node variable n
DegreeOf(n) == <<"((indegree(", n, ") + outdegree(", n, ") ) < ">>

\* C21: when a connectivity bound is configured, the degree constraint in the
\* filter of an edge names the endpoint of the edge that carries no
\* identifier, in the reversed case as in the un-reversed one, and never the
\* endpoint bound by identifiers.
C21_BoundOnUnboundEndpoint ==
    Has(options, "max_connectivity") =>
        \A i \in MatchedEdges :
            LET edge_id == qgraph.edges[i].k
                e == qgraph.edges[i].v
                subject == KeyOf(Get(e, "subject"))
                object == KeyOf(Get(e, "object"))
                where == Flatten(EdgeWheres(edge_id))
            IN  \A ends \in {<<subject, object>>, <<object, subject>>} :
                    (CarriesIdentifier(ends[1]) /\ ~CarriesIdentifier(ends[2])) =>
                        /\ Contains(where, DegreeOf(ends[2]))
                        /\ ~Contains(where, DegreeOf(ends[1]))

\* the places of the edge records of the result set: row, edge of the query
\* graph, position in the cell
EdgePlaces ==
    {pl \in (DOMAIN rows0) \X (DOMAIN qgraph.edges) \X (1..MaxRecords) :
        pl[3] <= Len(CellRecords(rows0[pl[1]], qgraph.edges[pl[2]].k))}
EdgeRecordAt(pl) == CellRecords(rows0[pl[1]], qgraph.edges[pl[2]].k)[pl[3]]
IdPairAt(pl) == Get(rows0[pl[1]], "id_pairs__" \o qgraph.edges[pl[2]].k).val[pl[3]]
EdgeTypeAt(pl) == Get(rows0[pl[1]], "type__" \o qgraph.edges[pl[2]].k).val[pl[3]]

\* the place a comes before the place b: row order, then edge order, then cell order
Before(a, b) ==
    \/ a[1] < b[1]
    \/ a[1] = b[1] /\ a[2] < b[2]
    \/ a[1] = b[1] /\ a[2] = b[2] /\ a[3] < b[3]

\* the place where the store-id was first seen
FirstSeenAt(store_id) ==
    CHOOSE pl \in EdgePlaces :
        /\ GetOr(EdgeRecordAt(pl), "id", PyNone) = store_id
        /\ \A other \in EdgePlaces :
             Before(other, pl) => GetOr(EdgeRecordAt(other), "id", PyNone) # store_id

\* a type with the prefix biolink. turned into biolink:
Translated(type) ==
    IF type # << >> /\ type[1] = "biolink." THEN <<"biolink:">> \o Tail(type) ELSE type

\* C22: the subject and object of every edge of the knowledge graph are the
\* first and second element of the id_pairs entry at the position of the edge
\* record in the row where its store-id was first seen, and its predicate is
\* the type__ entry at that position with biolink. turned into biolink:; the
\* endpoints come neither from the node columns of the row nor from the edge
\* pattern of the query graph.
C22_EdgeFromIdPair ==
    response.returned =>
        \A i \in DOMAIN response.knowledge_graph.edges :
            LET entry == response.knowledge_graph.edges[i]
                pl == FirstSeenAt(entry.k)
            IN  /\ entry.v.subject = IdPairAt(pl)[1]
                /\ entry.v.object = IdPairAt(pl)[2]
                /\ entry.v.predicate = Translated(EdgeTypeAt(pl))

\* a response for a row whose edge cell held two edges with different id
\* pairs, the second of them starting at another node than the one the row has
\* for the subject of the edge pattern
C22_Witness ==
    /\ response.returned
    /\ Len(response.knowledge_graph.edges) = 2
    /\ \E pl \in EdgePlaces :
         LET first == <<pl[1], pl[2], 1>>
             e == qgraph.edges[pl[2]].v
             subjects == CellRecords(rows0[pl[1]], KeyOf(Get(e, "subject")))
         IN  /\ pl[3] = 2
             /\ IdPairAt(pl) # IdPairAt(first)
             /\ Get(EdgeRecordAt(pl), "id") # Get(EdgeRecordAt(first), "id")
             /\ \A j \in DOMAIN subjects : Get(subjects[j], "id") # IdPairAt(pl)[1]

\* the label annotation of a category
LabelAnnotation(category) ==
    <<":", bq>> \o Replace(category, "biolink:", "biolink.") \o <<bq>>

\* the first render of the node n in the match text is the name, then the
\* annotation, then the property literal
FirstRenderIs(n, annotation) ==
    LET declaration == <<n>> \o annotation \o Get(node_references, n).prop_string
        first == First(Renders(MatchText, n, NodeOpeners))
    IN  /\ first + Len(declaration) - 1 <= Len(MatchText)
        /\ SubSeq(MatchText, first, first + Len(declaration) - 1) = declaration

\* the nodes rendered so far
RenderedNodes ==
    {i \in DOMAIN qgraph.nodes :
        Compiled /\ Renders(MatchText, qgraph.nodes[i].k, NodeOpeners) # {}}

BoundIn(bindings) ==
    UNION { {bindings[i].v[j].id : j \in DOMAIN bindings[i].v} : i \in DOMAIN bindings }

\* C24: in the answer the mapper returns, every store-id bound in the
\* node_bindings of a result is a key of knowledge_graph.nodes, every store-id
\* bound in the edge_bindings of a result is a key of knowledge_graph.edges,
\* and every result has a binding list for every node id and every edge id of
\* the query graph.
C24_BindingsResolve ==
    response.returned =>
        \A r \in DOMAIN response.results :
            LET result == response.results[r]
            IN  /\ \A i \in DOMAIN qgraph.nodes : Has(result.node_bindings, qgraph.nodes[i].k)
                /\ \A i \in DOMAIN qgraph.edges : Has(result.edge_bindings, qgraph.edges[i].k)
                /\ \A id \in BoundIn(result.node_bindings) :
                       Has(response.knowledge_graph.nodes, id)
                /\ \A id \in BoundIn(result.edge_bindings) :
                       Has(response.knowledge_graph.edges, id)

\* an answer with a result that binds a node seen in an earlier result, binds
\* an edge, and has an empty binding list
C24_Witness ==
    /\ response.returned
    /\ \E r, q \in DOMAIN response.results :
         /\ q < r
         /\ BoundIn(response.results[r].node_bindings)
                \cap BoundIn(response.results[q].node_bindings) # {}
         /\ BoundIn(response.results[r].edge_bindings) # {}
         /\ \E i \in DOMAIN response.results[r].node_bindings :
                response.results[r].node_bindings[i].v = << >>

\* the node variables on the left and on the right of the edge of a MATCH clause
EndsOf(clause, edge_id) ==
    LET k == CHOOSE k \in 1..(Len(clause) - 1) :
                 clause[k] \in EdgeOpeners /\ clause[k + 1] = edge_id
        j == First({l \in (k + 1)..Len(clause) : clause[l] \in EdgeClosers})
    IN  <<clause[2], clause[j + 2]>>

\* C25: for every directed edge, the arrow of the emitted match pattern points
\* from the subject node variable of the edge to its object node variable,
\* whether or not the pattern was reversed: un-reversed it reads
\* (subject)-[e]->(object), reversed it reads (object)<-[e]-(subject).
C25_ArrowSubjectToObject ==
    \A i \in MatchedEdges :
        LET edge_id == qgraph.edges[i].k
            e == qgraph.edges[i].v
            subject == KeyOf(Get(e, "subject"))
            object == KeyOf(Get(e, "object"))
            ref == Get(edge_references, edge_id)
            clause == EdgeClause(edge_id)
        IN  ref.directed =>
                IF ref.reversed
                THEN /\ ArrowOf(clause, edge_id) = <<"<-[", "]-">>
                     /\ EndsOf(clause, edge_id) = <<object, subject>>
                ELSE /\ ArrowOf(clause, edge_id) = <<"-[", "]->">>
                     /\ EndsOf(clause, edge_id) = <<subject, object>>

\* a compiled query with two directed edges between different nodes, one
\* reversed and read (object)<-[e]-(subject), one not and read
\* (subject)-[e]->(object)
C25_Witness ==
    /\ pc = "execute"
    /\ \E i, j \in DOMAIN qgraph.edges :
         LET ei == qgraph.edges[i]
             ej == qgraph.edges[j]
         IN  /\ Get(edge_references, ei.k).directed
             /\ Get(edge_references, ei.k).reversed
             /\ KeyOf(Get(ei.v, "subject")) # KeyOf(Get(ei.v, "object"))
             /\ EndsOf(EdgeClause(ei.k), ei.k)
                    = <<KeyOf(Get(ei.v, "object")), KeyOf(Get(ei.v, "subject"))>>
             /\ Get(edge_references, ej.k).directed
             /\ ~Get(edge_references, ej.k).reversed
             /\ EndsOf(EdgeClause(ej.k), ej.k)
                    = <<KeyOf(Get(ej.v, "subject")), KeyOf(Get(ej.v, "object"))>>

\* the lookups that got a 200 response
Successful == {i \in DOMAIN tasks : tasks[i].response.status_code = StatusOK}

\* the concepts in the ancestor list of some successful lookup
Ancestors == UNION { Elements(tasks[i].response.json.v) : i \in Successful }

\* C26: get_most_specific_concept starts one ancestor lookup per concept of
\* its input list and computes its result only after all of those lookups have
\* completed, whatever order they complete in; the result is the input list, in
\* input order, without every concept that occurs in the ancestor list of some
\* successful lookup, and a lookup that returned no data (a response that is
\* not 200) removes nothing.
C26_JoinThenFilter ==
    /\ lookup_pc # "start" =>
           /\ Len(tasks) = Len(concept_list)
           /\ \A i \in DOMAIN tasks : tasks[i].concept = concept_list[i]
    /\ lookup_pc = "done" =>
           /\ \A i \in DOMAIN tasks : tasks[i].state = "done"
           /\ most_specific = SelectSeq(concept_list, LAMBDA c : c \notin Ancestors)

\* a result computed after the second lookup completed before the first, where
\* a concept is removed and a concept named by a response that is not 200 is kept
C26_Witness ==
    /\ lookup_pc = "done"
    /\ Len(completed) >= 2
    /\ completed[1] # 1
    /\ Len(most_specific) < Len(concept_list)
    /\ \E i \in DOMAIN tasks :
         /\ tasks[i].response.status_code # StatusOK
         /\ Elements(tasks[i].response.json.v) \cap Elements(most_specific) # {}

\* the (source type, target type) pairs of the schema, by their places
SchemaPairs ==
    {p \in (DOMAIN graph_schema) \X (1..Cardinality(SchemaTypes)) :
        p[2] <= Len(graph_schema[p[1]].v)}

\* the question graph is the one of the pair: n1 of the source type, n2 of the
\* target type, and one edge from n1 to n2 per distinct predicate of the pair
TemplateOf(graph, p) ==
    LET source_type == graph_schema[p[1]].k
        target == graph_schema[p[1]].v[p[2]]
    IN  /\ graph.nodes = << [id |-> "n1", type |-> source_type],
                            [id |-> "n2", type |-> target.k] >>
        /\ {graph.edges[k].type : k \in DOMAIN graph.edges} = Elements(target.v)
        /\ Len(graph.edges) = Cardinality(Elements(target.v))
        /\ \A k \in DOMAIN graph.edges :
               graph.edges[k].source_id = "n1" /\ graph.edges[k].target_id = "n2"

\* C27 as stated: transform_schema_to_question_template returns one question
\* template per (source type, target type) pair of the graph schema, each with
\* nodes n1 of the source type and n2 of the target type and one edge per
\* distinct predicate listed for that pair.
C27_TemplatePerPair ==
    /\ template_pc # "raised"
    /\ template_pc = "done" =>
           /\ Len(question_templates) = Cardinality(SchemaPairs)
           /\ \A p \in SchemaPairs :
                  \E k \in DOMAIN question_templates :
                      TemplateOf(question_templates[k].query_graph, p)

====
